---- MODULE Spec2Model ----
(***************************************************************************)
(* Model of private_assistant_commons: the confidence decision engine of   *)
(* BaseSkill (_should_handle_intent with SkillContext) and the reliable    *)
(* publisher (_send_response_with_retry).                                  *)
(*                                                                         *)
(* Confidences and thresholds are floats in [0,1] in the source; they are  *)
(* modelled in hundredths (0.8 is 80).  Times are whole seconds.           *)
(***************************************************************************)
EXTENDS Integers, Sequences, FiniteSets, TLC

VARIABLES
    supported_intents,     \* BaseSkill.supported_intents: intent type -> threshold
    confidence_modifiers,  \* BaseSkill.confidence_modifiers: intent type -> list of modifiers
    max_recent_actions,    \* SkillContext.max_recent_actions
    recent_actions,        \* SkillContext.recent_actions: list of [action, executed_at]
    now,                   \* the wall clock read by datetime.now()
    processing,            \* intent types whose process_request is awaiting
    lastDecision,          \* the last request decided and what _should_handle_intent returned
    lastTrigger,           \* when add_action last recorded device.on, and the add_action calls since
    calls,                 \* the _send_response_with_retry calls: call -> its local state
    metrics,               \* MetricsCollector.metrics: the counters
    broker,                \* whether the MQTT broker accepts and keeps connections
    supervisor,            \* mqtt_connection_handler: its position and what it did
    task_group,            \* the asyncio.TaskGroup of the current connection
    listener,              \* the task running listen_to_messages
    inbox,                 \* client.messages: delivered messages not yet dispatched
    tasks,                 \* the asyncio tasks created by add_task: task id -> task
    _active_tasks,         \* BaseSkill._active_tasks: the ids registered
    _task_counter,         \* BaseSkill._task_counter
    lookup,                \* the SkillContext.find_recent_action call made last, and what it returned
    database,              \* the registry database: its tables and whether it answers
    registry_calls,        \* the device-registry and Skill.ensure_exists calls: call -> its local state
    cache,                 \* the bounded cache of recent requests
    outbox,                \* what mqtt_client.publish was called with, in order
    logger                 \* SkillLogger: the class-level caches, their lock and the calling threads

intentVars == <<supported_intents, confidence_modifiers, max_recent_actions,
                recent_actions, now, processing, lastDecision, lastTrigger>>

publishVars == <<calls, metrics>>

runtimeVars == <<broker, supervisor, task_group, listener, inbox, tasks,
                 _active_tasks, _task_counter>>

serviceVars == <<lookup, database, registry_calls, cache, outbox, logger>>

vars == <<intentVars, publishVars, runtimeVars, serviceVars>>

----------------------------------------------------------------------------
(* Bounds of the model *)

MaxTime == 300
MaxRecentActions == 2
MaxRetries == 5
MaxTasks == 2
MaxMessages == 2
MaxAttempts == 3
MaxActions == 4
MaxCapacity == 2
MaxSets == 4
MaxEnsureCalls == 3
MaxTicks == 3

(* Program constants *)

recency_window_seconds == 300
DefaultMaxRecentActions == 10
DefaultMaxRetries == 3
BackoffCap == 10
DefaultRetryInterval == 5

----------------------------------------------------------------------------
(* Values *)

DEVICE_ON == "device.on"
DEVICE_OFF == "device.off"
MEDIA_PLAY == "media.play"

IntentType == {DEVICE_ON, DEVICE_OFF, MEDIA_PLAY}

None == [action |-> "None", executed_at |-> -1]

Confidences == {10, 30, 80}
Thresholds == {50, 80}

NoDecision ==
    [intent_type |-> "none", confidence |-> 0, should_handle |-> FALSE,
     effective_threshold |-> 0, lowered |-> <<>>]

NeverRecorded == [at |-> -1, since |-> 0]

(* the clock advances in steps of this many seconds *)
ClockSteps == {100}

OnLowersTo30 ==
    [trigger_intent |-> DEVICE_ON, reduced_threshold |-> 30, time_window_seconds |-> 300]
OnLowersTo90 ==
    [trigger_intent |-> DEVICE_ON, reduced_threshold |-> 90, time_window_seconds |-> 300]
OffLowersTo10 ==
    [trigger_intent |-> DEVICE_OFF, reduced_threshold |-> 10, time_window_seconds |-> 100]

Min(a, b) == IF a < b THEN a ELSE b

(* no find_recent_action call was made yet; within_seconds is an optional
   int: {} is None and {w} is w *)
NoLookup ==
    [action |-> "none", within_seconds |-> {}, at |-> 0, before |-> <<>>,
     after |-> <<>>, result |-> None]

(* the registry database before anything is stored in it; version counts
   the commits that changed it *)
EmptyDatabase ==
    [up |-> TRUE, version |-> 0, skills |-> <<>>, devices |-> {}, device_types |-> {}]

(* a registry call that was not made yet; committed is the version its
   commit produced, 0 when it committed nothing *)
IdleRegistryCall ==
    [op |-> "none", device |-> "none", pc |-> "idle", committed |-> 0, result |-> "None",
     loaded |-> "None"]

NoRegistryCalls == [c \in {} |-> IdleRegistryCall]

(* the bounded cache when nothing uses it: entries in recency order, the
   least recently used first; touched is the history of the set calls and
   last what the last set call found *)
NoCache ==
    [max_size |-> 0, entries |-> <<>>, touched |-> <<>>,
     last |-> [present |-> FALSE, size |-> 0]]

NoLogger ==
    [lock |-> "free", handlers |-> {}, formatters |-> {}, consoles |-> {},
     configured |-> {}, threads |-> <<>>]

----------------------------------------------------------------------------
(* SkillContext *)

(* variant: an action recorded at the current instant counts as expired *)
_cleanup_expired_actions_Eager(actions, t) ==
    LET Keep(a) == a.executed_at > t
    IN  SelectSeq(actions, Keep)

_cleanup_expired_actions(actions, t) ==
    LET cutoff_time == t - recency_window_seconds
        Keep(a) == a.executed_at > cutoff_time
    IN  SelectSeq(actions, Keep)

(* variant: the scan runs from the oldest action to the newest *)
ScanBackwards_Oldest(actions, i, action, cutoff_time) ==
    LET found == {k \in 1..i : /\ actions[k].action = action
                               /\ actions[k].executed_at > cutoff_time}
    IN  IF found = {} THEN None
        ELSE actions[CHOOSE k \in found : \A j \in found : k <= j]

RECURSIVE ScanBackwards(_, _, _, _)
ScanBackwards(actions, i, action, cutoff_time) ==
    IF i = 0 THEN None
    ELSE IF actions[i].action = action /\ actions[i].executed_at > cutoff_time
         THEN actions[i]
         ELSE ScanBackwards(actions, i - 1, action, cutoff_time)

(* variant: neither prunes nor applies the time window *)
find_recent_action_NoExpiry(actions, action, within_seconds, t) ==
    IF actions = <<>> THEN None
    ELSE ScanBackwards(actions, Len(actions), action, -1)

find_recent_action(actions, action, within_seconds, t) ==
    LET kept == _cleanup_expired_actions(actions, t)
    IN  IF kept = <<>> THEN None
        ELSE ScanBackwards(kept, Len(kept), action, t - within_seconds)

PySliceLast(s, m) ==
    IF m = 0 THEN s ELSE SubSeq(s, Len(s) - m + 1, Len(s))

add_action(actions, action, t, maxRecent) ==
    LET appended == Append(actions, [action |-> action, executed_at |-> t])
    IN  IF Len(appended) > maxRecent THEN PySliceLast(appended, maxRecent) ELSE appended

----------------------------------------------------------------------------
(* BaseSkill._should_handle_intent *)

(* variant: an applicable modifier overwrites the threshold instead of lowering it *)
RECURSIVE ApplyModifiers_Overwrite(_, _, _, _, _)
ApplyModifiers_Overwrite(modifiers, i, acc, actions, t) ==
    IF i > Len(modifiers) THEN acc
    ELSE LET modifier == modifiers[i]
             recent_action == find_recent_action(actions, modifier.trigger_intent,
                                                 modifier.time_window_seconds, t)
         IN  ApplyModifiers_Overwrite(modifiers, i + 1,
                            IF recent_action # None
                            THEN [effective_threshold |-> modifier.reduced_threshold,
                                  lowered |-> Append(acc.lowered, modifier.trigger_intent)]
                            ELSE acc,
                            actions, t)

(* the modifier loop; lowered is the list of trigger intents the loop logs
   "Lowered threshold to ... due to recent ... intent" for *)
RECURSIVE ApplyModifiers(_, _, _, _, _)
ApplyModifiers(modifiers, i, acc, actions, t) ==
    IF i > Len(modifiers) THEN acc
    ELSE LET modifier == modifiers[i]
             recent_action == find_recent_action(actions, modifier.trigger_intent,
                                                 modifier.time_window_seconds, t)
         IN  ApplyModifiers(modifiers, i + 1,
                            IF recent_action # None
                            THEN [effective_threshold |->
                                      Min(acc.effective_threshold, modifier.reduced_threshold),
                                  lowered |-> Append(acc.lowered, modifier.trigger_intent)]
                            ELSE acc,
                            actions, t)

(* the decision once the modifier loop has run *)
Decide(confidence, scanned) ==
    IF confidence < scanned.effective_threshold
    THEN [should_handle |-> FALSE,
          effective_threshold |-> scanned.effective_threshold,
          lowered |-> scanned.lowered]
    ELSE [should_handle |-> TRUE,
          effective_threshold |-> scanned.effective_threshold,
          lowered |-> scanned.lowered]

(* variant: an unsupported intent reports the skill's nominal certainty threshold *)
_should_handle_intent_Nominal(intent_type, confidence, supported, modifiers, actions, t) ==
    IF intent_type \notin DOMAIN supported
    THEN [should_handle |-> FALSE, effective_threshold |-> 80, lowered |-> <<>>]
    ELSE Decide(confidence,
                ApplyModifiers(modifiers[intent_type], 1,
                               [effective_threshold |-> supported[intent_type],
                                lowered |-> <<>>],
                               actions, t))

(* variant: a confidence equal to the threshold is rejected *)
_should_handle_intent_Strict(intent_type, confidence, supported, modifiers, actions, t) ==
    IF intent_type \notin DOMAIN supported
    THEN [should_handle |-> FALSE, effective_threshold |-> 0, lowered |-> <<>>]
    ELSE LET scanned == ApplyModifiers(modifiers[intent_type], 1,
                                       [effective_threshold |-> supported[intent_type],
                                        lowered |-> <<>>],
                                       actions, t)
         IN  [Decide(confidence, scanned) EXCEPT
                 !.should_handle = confidence > scanned.effective_threshold]

_should_handle_intent(intent_type, confidence, supported, modifiers, actions, t) ==
    IF intent_type \notin DOMAIN supported
    THEN [should_handle |-> FALSE, effective_threshold |-> 0, lowered |-> <<>>]
    ELSE LET required_confidence == supported[intent_type]
             scanned == ApplyModifiers(modifiers[intent_type], 1,
                                       [effective_threshold |-> required_confidence,
                                        lowered |-> <<>>],
                                       actions, t)
         IN  IF confidence < scanned.effective_threshold
             THEN [should_handle |-> FALSE,
                   effective_threshold |-> scanned.effective_threshold,
                   lowered |-> scanned.lowered]
             ELSE [should_handle |-> TRUE,
                   effective_threshold |-> scanned.effective_threshold,
                   lowered |-> scanned.lowered]

(* find_recent_action prunes the context each time the modifier loop calls it *)
ContextAfterDecision(intent_type, supported, modifiers, actions, t) ==
    IF intent_type \in DOMAIN supported /\ modifiers[intent_type] # <<>>
    THEN _cleanup_expired_actions(actions, t)
    ELSE actions

----------------------------------------------------------------------------
(* Values of the runtime: supervisor, task group, tasks, messages *)

(* the retry_interval a runner passes: a short one and the default *)
RetryIntervals == {1, DefaultRetryInterval}

(* what mqtt_connection_handler does on entering the connection, in order *)
StartupSteps == <<"open_scope", "construct", "subscribe", "prepare", "listen">>

(* mqtt_connection_handler entering its loop *)
Supervisor(retry_interval) ==
    [pc |-> "connecting", retry_interval |-> retry_interval, failed_attempts |-> 0,
     slept |-> 0, steps |-> <<>>, exit |-> "None"]

(* mqtt_connection_handler waiting in the task group for the skill's tasks *)
ServingSupervisor ==
    [Supervisor(DefaultRetryInterval) EXCEPT !.pc = "serving", !.steps = StartupSteps]

(* asyncio.TaskGroup(): _entered, _exiting, _aborting, _errors *)
NoTaskGroup == [entered |-> FALSE, exiting |-> FALSE, aborting |-> FALSE, errors |-> {}]

(* an asyncio task: where its coroutine is, whether cancel() was called on
   it, whether its done callbacks have run; and what its handler did so far:
   the calls of process_request, whether one raised, the calls of add_action *)
Task(coro, message) ==
    [coro |-> coro, message |-> message, state |-> "created",
     must_cancel |-> FALSE, callbacks_run |-> FALSE,
     process_requests |-> 0, process_raised |-> FALSE, actions_added |-> 0]

Done == {"returned", "raised", "cancelled"}

(* a message: seq is its position in the order of arrival on the connection *)
NoMessage ==
    [topic |-> "none", payload |-> "none", intent_type |-> "none", confidence |-> 0,
     seq |-> 0]

NoListener == [Task("listen_to_messages", NoMessage) EXCEPT !.state = "none"]

Listening == [Task("listen_to_messages", NoMessage) EXCEPT !.state = "listening"]

NoTasks == [t \in {} |-> Task("none", NoMessage)]

(* client.messages: the messages waiting for the listener, and the number
   delivered on this connection so far *)
EmptyInbox == [queue |-> <<>>, delivered |-> 0]

(* the messages the broker delivers: an IntentRequest that validates, a
   payload that does not, a payload decode_message_payload cannot decode, a
   device update notification *)
IntentRequest(intent_type, confidence) ==
    [NoMessage EXCEPT !.topic = "intent_analysis_result_topic", !.payload = "valid",
                      !.intent_type = intent_type, !.confidence = confidence]

Inbound ==
    { IntentRequest(DEVICE_ON, 80), IntentRequest(DEVICE_OFF, 30),
      [NoMessage EXCEPT !.topic = "intent_analysis_result_topic", !.payload = "malformed"],
      [NoMessage EXCEPT !.topic = "intent_analysis_result_topic", !.payload = "undecodable"],
      [NoMessage EXCEPT !.topic = "device_update_topic", !.payload = "empty"] }

----------------------------------------------------------------------------
(* BaseSkill._send_response_with_retry *)

Calls == {"call_1", "call_2"}

(* what awaiting one publish attempt can raise *)
FailureKinds == {"TimeoutError", "MqttError", "Exception"}

(* variant: the generic except clause catches every failure *)
MqttErrorTypeOf_Generic(kind) == "publish_failed"

(* MqttErrorType set by the except clause that catches the failure *)
MqttErrorTypeOf(kind) ==
    CASE kind = "TimeoutError" -> "timeout"
      [] kind = "MqttError"    -> "connection_lost"
      [] OTHER                 -> "publish_failed"

RECURSIVE Pow2(_)
Pow2(n) == IF n = 0 THEN 1 ELSE 2 * Pow2(n - 1)

(* variant: the delay is not capped *)
BackoffDelay_Uncapped(attempt) == Pow2(attempt)

(* delay = min(2**attempt, 10) *)
BackoffDelay(attempt) == Min(Pow2(attempt), BackoffCap)

(* the retry limits a caller passes: none, the default, the largest modelled *)
RetryChoices == {0, DefaultMaxRetries, MaxRetries}

(* the arguments of the publish_with_alert call that made the call; via is
   "none" when _send_response_with_retry was called directly.  An optional
   argument is a set: {} is None and {x} is x *)
NoRequest == [via |-> "none", broadcast |-> FALSE, client_request |-> {}, alert |-> {}]

IdleCall ==
    [pc |-> "idle", max_retries |-> 0, script |-> 0, attempt |-> 0,
     last_error_type |-> "None", publishes |-> 0, failed |-> 0, sleeps |-> <<>>,
     result |-> "None", raised |-> "None", reported |-> "None", recorded |-> 0,
     last_failure |-> "None", failures_seen |-> {}, cancelled |-> FALSE,
     request |-> NoRequest]

(* PerformanceMetrics(): the MQTT counters start at zero *)
PerformanceMetrics ==
    [mqtt_publishes |-> 0, mqtt_publish_failures |-> 0, error_count |-> 0,
     messages_processed |-> 0, messages_failed |-> 0,
     tasks_created |-> 0, tasks_completed |-> 0, tasks_failed |-> 0]

(* variant: every publish event counts as a publish, failed or not *)
record_mqtt_event_AllSuccess(m, success) ==
    [m EXCEPT !.mqtt_publishes = @ + 1]

(* MetricsCollector.record_mqtt_event("publish", success) *)
record_mqtt_event(m, success) ==
    IF success
    THEN [m EXCEPT !.mqtt_publishes = @ + 1]
    ELSE [m EXCEPT !.mqtt_publish_failures = @ + 1, !.error_count = @ + 1]

(* the call starts and awaits its first publish attempt; script is the
   number of leading attempts the caller's publish function fails *)
StartCall(c, retries, script) ==
    /\ calls[c].pc = "idle"
    /\ calls' = [calls EXCEPT ![c] =
                    [IdleCall EXCEPT !.pc = "publishing", !.max_retries = retries,
                                     !.script = script, !.attempt = 0, !.publishes = 1]]
    /\ UNCHANGED <<metrics, intentVars, runtimeVars, serviceVars>>

(* the awaited publish completes in time: success is recorded and True returned *)
PublishSucceeds(c) ==
    /\ calls[c].pc = "publishing"
    /\ calls[c].failed >= calls[c].script
    /\ calls' = [calls EXCEPT ![c].pc = "returned", ![c].result = "True",
                              ![c].recorded = @ + 1]
    /\ metrics' = record_mqtt_event(metrics, TRUE)
    /\ UNCHANGED <<intentVars, runtimeVars, serviceVars>>

(* what an except clause of the retry loop does with a failed attempt *)
NoteFailure(call, kind) ==
    [call EXCEPT !.failed = @ + 1,
                 !.last_error_type = MqttErrorTypeOf(kind),
                 !.last_failure = kind,
                 !.failures_seen = @ \cup {kind}]

(* variant: the loop runs one iteration too many *)
PublishFails_ExtraRetry(c, kind) ==
    /\ calls[c].pc = "publishing"
    /\ calls[c].failed < calls[c].script
    /\ LET noted == NoteFailure(calls[c], kind)
       IN  IF calls[c].attempt <= calls[c].max_retries
           THEN /\ calls' = [calls EXCEPT ![c] =
                                [noted EXCEPT !.pc = "sleeping",
                                              !.sleeps = Append(@, BackoffDelay(calls[c].attempt))]]
                /\ UNCHANGED metrics
           ELSE /\ calls' = [calls EXCEPT ![c] =
                                [noted EXCEPT !.pc = "returned", !.result = "False",
                                              !.reported = noted.last_error_type,
                                              !.recorded = @ + 1]]
                /\ metrics' = record_mqtt_event(metrics, FALSE)
    /\ UNCHANGED <<intentVars, runtimeVars, serviceVars>>

(* variant: the loop ends on a success flag kept on the skill, so a call
   whose attempt failed stops once any other call has published *)
PublishFails_SharedFlag(c, kind) ==
    /\ calls[c].pc = "publishing"
    /\ calls[c].failed < calls[c].script
    /\ LET noted == NoteFailure(calls[c], kind)
       IN  IF \E d \in Calls \ {c} : calls[d].result = "True"
           THEN /\ calls' = [calls EXCEPT ![c] =
                                [noted EXCEPT !.pc = "returned", !.result = "True",
                                              !.recorded = @ + 1]]
                /\ metrics' = record_mqtt_event(metrics, TRUE)
           ELSE IF calls[c].attempt < calls[c].max_retries
           THEN /\ calls' = [calls EXCEPT ![c] =
                                [noted EXCEPT !.pc = "sleeping",
                                              !.sleeps = Append(@, BackoffDelay(calls[c].attempt))]]
                /\ UNCHANGED metrics
           ELSE /\ calls' = [calls EXCEPT ![c] =
                                [noted EXCEPT !.pc = "returned", !.result = "False",
                                              !.reported = noted.last_error_type,
                                              !.recorded = @ + 1]]
                /\ metrics' = record_mqtt_event(metrics, FALSE)
    /\ UNCHANGED <<intentVars, runtimeVars, serviceVars>>

(* the awaited publish raises kind: the except clause notes the category, then
   the call either starts its backoff sleep or, after the last attempt,
   records the failure, logs the category and returns False *)
PublishFails(c, kind) ==
    /\ calls[c].pc = "publishing"
    /\ calls[c].failed < calls[c].script
    /\ LET noted == NoteFailure(calls[c], kind)
       IN  IF calls[c].attempt < calls[c].max_retries
           THEN /\ calls' = [calls EXCEPT ![c] =
                                [noted EXCEPT !.pc = "sleeping",
                                              !.sleeps = Append(@, BackoffDelay(calls[c].attempt))]]
                /\ UNCHANGED metrics
           ELSE /\ calls' = [calls EXCEPT ![c] =
                                [noted EXCEPT !.pc = "returned", !.result = "False",
                                              !.reported = noted.last_error_type,
                                              !.recorded = @ + 1]]
                /\ metrics' = record_mqtt_event(metrics, FALSE)
    /\ UNCHANGED <<intentVars, runtimeVars, serviceVars>>

(* the backoff sleep ends: the loop's next iteration awaits the next attempt *)
Wake(c) ==
    /\ calls[c].pc = "sleeping"
    /\ calls' = [calls EXCEPT ![c].pc = "publishing", ![c].attempt = @ + 1,
                              ![c].publishes = @ + 1]
    /\ UNCHANGED <<metrics, intentVars, runtimeVars, serviceVars>>

(* variant: the cancellation is caught like any other exception and retried *)
Cancel_Swallowed(c) ==
    /\ calls[c].pc \in {"publishing", "sleeping"}
    /\ calls' = [calls EXCEPT ![c].pc = "sleeping", ![c].cancelled = TRUE,
                              ![c].last_error_type = "publish_failed"]
    /\ UNCHANGED <<metrics, intentVars, runtimeVars, serviceVars>>

(* the call's task is cancelled while it awaits the publish or the sleep:
   CancelledError is re-raised (publish) or propagates (sleep) *)
Cancel(c) ==
    /\ calls[c].pc \in {"publishing", "sleeping"}
    /\ calls' = [calls EXCEPT ![c].pc = "raised", ![c].raised = "CancelledError",
                              ![c].cancelled = TRUE]
    /\ UNCHANGED <<metrics, intentVars, runtimeVars, serviceVars>>

NextPublish ==
    \/ \E c \in Calls, retries \in RetryChoices :
          \E script \in 0..(retries + 1) : StartCall(c, retries, script)
    \/ \E c \in Calls : PublishSucceeds(c)
    \/ \E c \in Calls, kind \in FailureKinds : PublishFails(c, kind)
    \/ \E c \in Calls : Wake(c)
    \/ \E c \in Calls : Cancel(c)

(* the skill as BaseSkill.__init__ leaves it, no call started *)
InitPublish ==
    /\ supported_intents = <<>>
    /\ confidence_modifiers = [i \in IntentType |-> <<>>]
    /\ max_recent_actions = DefaultMaxRecentActions
    /\ recent_actions = <<>>
    /\ now = 0
    /\ processing = {}
    /\ lastDecision = NoDecision
    /\ lastTrigger = NeverRecorded
    /\ calls = [c \in Calls |-> IdleCall]
    /\ metrics = PerformanceMetrics
    /\ broker = "up"
    /\ supervisor = ServingSupervisor
    /\ task_group = [NoTaskGroup EXCEPT !.entered = TRUE, !.exiting = TRUE]
    /\ listener = Listening
    /\ inbox = EmptyInbox
    /\ tasks = NoTasks
    /\ _active_tasks = {}
    /\ _task_counter = 0
    /\ lookup = NoLookup
    /\ database = EmptyDatabase
    /\ registry_calls = NoRegistryCalls
    /\ cache = NoCache
    /\ outbox = <<>>
    /\ logger = NoLogger

SpecPublish == InitPublish /\ [][NextPublish]_vars

----------------------------------------------------------------------------
(* The intent-decision state machine *)

SupportedChoices ==
    {[i \in {DEVICE_OFF} |-> 80]}
        \cup {[i \in {DEVICE_ON, DEVICE_OFF} |-> IF i = DEVICE_ON THEN 50 ELSE t] :
                 t \in Thresholds}

(* the modifier lists a skill registers for device.off *)
ModifierLists ==
    { <<>>, <<OnLowersTo30>>, <<OnLowersTo30, OffLowersTo10>>,
      <<OnLowersTo90, OffLowersTo10>> }

InitIntent ==
    /\ supported_intents \in SupportedChoices
    /\ \E ms \in ModifierLists :
          confidence_modifiers = [i \in IntentType |-> IF i = DEVICE_OFF THEN ms ELSE <<>>]
    /\ max_recent_actions \in 1..MaxRecentActions
    /\ recent_actions = <<>>
    /\ now = 0
    /\ processing = {}
    /\ lastDecision = NoDecision
    /\ lastTrigger = NeverRecorded
    /\ calls = [c \in Calls |-> IdleCall]
    /\ metrics = PerformanceMetrics
    /\ broker = "up"
    /\ supervisor = ServingSupervisor
    /\ task_group = [NoTaskGroup EXCEPT !.entered = TRUE, !.exiting = TRUE]
    /\ listener = Listening
    /\ inbox = EmptyInbox
    /\ tasks = NoTasks
    /\ _active_tasks = {}
    /\ _task_counter = 0
    /\ lookup = NoLookup
    /\ database = EmptyDatabase
    /\ registry_calls = NoRegistryCalls
    /\ cache = NoCache
    /\ outbox = <<>>
    /\ logger = NoLogger

(* handle_client_request_message up to the await of process_request *)
HandleRequest(intent_type, confidence) ==
    LET decision == _should_handle_intent(intent_type, confidence, supported_intents,
                                          confidence_modifiers, recent_actions, now)
    IN  /\ intent_type \notin processing
        /\ lastDecision' = [intent_type |-> intent_type, confidence |-> confidence,
                            should_handle |-> decision.should_handle,
                            effective_threshold |-> decision.effective_threshold,
                            lowered |-> decision.lowered]
        /\ recent_actions' = ContextAfterDecision(intent_type, supported_intents,
                                                  confidence_modifiers, recent_actions, now)
        /\ processing' = IF decision.should_handle
                         THEN processing \cup {intent_type} ELSE processing
        /\ UNCHANGED <<supported_intents, confidence_modifiers, max_recent_actions, now,
                       lastTrigger, publishVars, runtimeVars, serviceVars>>

(* process_request returned: the accepted intent is recorded in the context *)
ProcessReturns(intent_type) ==
    /\ intent_type \in processing
    /\ processing' = processing \ {intent_type}
    /\ recent_actions' = add_action(recent_actions, intent_type, now, max_recent_actions)
    /\ lastTrigger' = IF intent_type = DEVICE_ON
                      THEN [at |-> now, since |-> 0]
                      ELSE IF lastTrigger = NeverRecorded THEN lastTrigger
                      ELSE [lastTrigger EXCEPT !.since = Min(@ + 1, max_recent_actions)]
    /\ UNCHANGED <<supported_intents, confidence_modifiers, max_recent_actions, now,
                   lastDecision, publishVars, runtimeVars, serviceVars>>

(* process_request raised: nothing is recorded *)
ProcessRaises(intent_type) ==
    /\ intent_type \in processing
    /\ processing' = processing \ {intent_type}
    /\ UNCHANGED <<supported_intents, confidence_modifiers, max_recent_actions, now,
                   recent_actions, lastDecision, lastTrigger, publishVars, runtimeVars, serviceVars>>

Tick ==
    \E d \in ClockSteps :
       /\ now + d <= MaxTime
       /\ now' = now + d
       /\ UNCHANGED <<supported_intents, confidence_modifiers, max_recent_actions,
                       recent_actions, processing, lastDecision, lastTrigger, publishVars, runtimeVars, serviceVars>>

NextIntent ==
    \/ \E i \in IntentType, c \in Confidences : HandleRequest(i, c)
    \/ \E i \in IntentType : ProcessReturns(i)
    \/ \E i \in IntentType : ProcessRaises(i)
    \/ Tick

SpecIntent == InitIntent /\ [][NextIntent]_vars

(* the time windows a skill gives its modifiers: shorter than the recency
   window of the context, equal to it, longer *)
TimeWindows == {100, recency_window_seconds, 400}

(* ConfidenceModifier(trigger_intent=DEVICE_ON, reduced_threshold=0.3,
   time_window_seconds=w) *)
OnLowersTo30Within(w) ==
    [trigger_intent |-> DEVICE_ON, reduced_threshold |-> 30, time_window_seconds |-> w]

(* a skill that registers one modifier for device.off, with any of the windows *)
InitWindow ==
    /\ supported_intents \in SupportedChoices
    /\ \E w \in TimeWindows :
          confidence_modifiers = [i \in IntentType |->
                                    IF i = DEVICE_OFF THEN <<OnLowersTo30Within(w)>>
                                    ELSE <<>>]
    /\ max_recent_actions \in 1..MaxRecentActions
    /\ recent_actions = <<>>
    /\ now = 0
    /\ processing = {}
    /\ lastDecision = NoDecision
    /\ lastTrigger = NeverRecorded
    /\ calls = [c \in Calls |-> IdleCall]
    /\ metrics = PerformanceMetrics
    /\ broker = "up"
    /\ supervisor = ServingSupervisor
    /\ task_group = [NoTaskGroup EXCEPT !.entered = TRUE, !.exiting = TRUE]
    /\ listener = Listening
    /\ inbox = EmptyInbox
    /\ tasks = NoTasks
    /\ _active_tasks = {}
    /\ _task_counter = 0
    /\ lookup = NoLookup
    /\ database = EmptyDatabase
    /\ registry_calls = NoRegistryCalls
    /\ cache = NoCache
    /\ outbox = <<>>
    /\ logger = NoLogger

SpecWindow == InitWindow /\ [][NextIntent]_vars

----------------------------------------------------------------------------
(* MetricsCollector: the message and task counters *)

(* MetricsCollector.record_task_event(event) *)
record_task_event(m, event) ==
    CASE event = "created"   -> [m EXCEPT !.tasks_created = @ + 1]
      [] event = "completed" -> [m EXCEPT !.tasks_completed = @ + 1]
      [] event = "failed"    -> [m EXCEPT !.tasks_failed = @ + 1, !.error_count = @ + 1]
      [] OTHER               -> m

(* MetricsCollector.record_message_processed(success) *)
record_message_processed(m, success) ==
    IF success
    THEN [m EXCEPT !.messages_processed = @ + 1]
    ELSE [m EXCEPT !.messages_failed = @ + 1, !.error_count = @ + 1]

(* MetricsCollector.record_log_event(level); warning_count is not modelled *)
record_log_event(m, level) ==
    IF level = "ERROR" THEN [m EXCEPT !.error_count = @ + 1] ELSE m

----------------------------------------------------------------------------
(* mqtt_connection_handler *)

(* what the runtime steps never touch *)
idleVars == <<now, processing, lastDecision, lastTrigger, calls, serviceVars>>

(* what BaseSkill.__init__ and the skill's own __init__ set *)
configVars == <<supported_intents, confidence_modifiers, max_recent_actions>>

(* what lives in the skill instance and its task group *)
skillVars == <<task_group, listener, inbox, tasks, _active_tasks, _task_counter,
               metrics, recent_actions, configVars>>

(* the handler attempts a connection or holds one that its listener uses:
   only then does the state of the broker reach the program *)
Attached ==
    /\ supervisor.pc # "terminated"
    /\ listener.state \notin Done
    /\ ~listener.must_cancel

(* the broker stops accepting and drops its connections, or comes back *)
BrokerGoesDown ==
    /\ Attached
    /\ broker = "up"
    /\ broker' = "down"
    /\ UNCHANGED <<supervisor, skillVars, idleVars>>

BrokerComesUp ==
    /\ Attached
    /\ broker = "down"
    /\ broker' = "up"
    /\ UNCHANGED <<supervisor, skillVars, idleVars>>

(* variant: the interval grows with the number of failed attempts *)
ConnectFails_Backoff ==
    /\ supervisor.pc = "connecting"
    /\ broker = "down"
    /\ supervisor' = [supervisor EXCEPT !.pc = "sleeping",
                                        !.failed_attempts = Min(@ + 1, MaxAttempts),
                                        !.slept = supervisor.retry_interval
                                                     * (supervisor.failed_attempts + 1)]
    /\ UNCHANGED <<broker, skillVars, idleVars>>

(* entering the client raises MqttError: the except clause logs it and
   sleeps retry_interval; failed_attempts counts the consecutive failures *)
ConnectFails ==
    /\ supervisor.pc = "connecting"
    /\ broker = "down"
    /\ supervisor' = [supervisor EXCEPT !.pc = "sleeping",
                                        !.failed_attempts = Min(@ + 1, MaxAttempts),
                                        !.slept = supervisor.retry_interval]
    /\ UNCHANGED <<broker, skillVars, idleVars>>

(* asyncio.sleep(retry_interval) returns: the while loop attempts again *)
SleepEnds ==
    /\ supervisor.pc = "sleeping"
    /\ supervisor' = [supervisor EXCEPT !.pc = "connecting"]
    /\ UNCHANGED <<broker, skillVars, idleVars>>

(* the skill class used: what its __init__ puts in supported_intents and
   confidence_modifiers *)
SkillClass ==
    [supported_intents |-> [i \in {DEVICE_ON, DEVICE_OFF} |->
                               IF i = DEVICE_ON THEN 50 ELSE 80],
     confidence_modifiers |-> [i \in IntentType |->
                                  IF i = DEVICE_OFF THEN <<OnLowersTo30>> ELSE <<>>]]

(* the client is entered: the task group is opened, the skill instance is
   constructed and setup_mqtt_subscriptions is awaited *)
ConnectSucceeds ==
    /\ supervisor.pc = "connecting"
    /\ broker = "up"
    /\ supervisor' = [supervisor EXCEPT !.pc = "subscribing", !.failed_attempts = 0,
                                        !.steps = <<"open_scope", "construct">>]
    /\ task_group' = [NoTaskGroup EXCEPT !.entered = TRUE]
    /\ listener' = NoListener
    /\ inbox' = EmptyInbox
    /\ tasks' = NoTasks
    /\ _active_tasks' = {}
    /\ _task_counter' = 0
    /\ metrics' = PerformanceMetrics
    /\ recent_actions' = <<>>
    /\ supported_intents' = SkillClass.supported_intents
    /\ confidence_modifiers' = SkillClass.confidence_modifiers
    /\ max_recent_actions' = DefaultMaxRecentActions
    /\ UNCHANGED <<broker, idleVars>>

(* the except clause of mqtt_connection_handler: does it catch exc *)
CaughtAsMqttError(exc) == exc = "MqttError"

(* what leaves the task group when it exits with these errors: a group of them *)
RaisedByTaskGroup(errors) ==
    IF errors = {} THEN "None" ELSE "ExceptionGroup"

(* the exception exc leaves the task group and the client: the except
   clause sleeps when it catches it, otherwise it leaves the handler *)
AfterScope(sup, exc) ==
    IF exc = "None"
    THEN [sup EXCEPT !.pc = "connecting"]
    ELSE IF CaughtAsMqttError(exc)
    THEN [sup EXCEPT !.pc = "sleeping", !.slept = sup.retry_interval]
    ELSE [sup EXCEPT !.pc = "terminated", !.exit = exc]

(* an await in the body of the task group raises kind: the group's __aexit__
   aborts (no task exists yet), adds the exception to its errors and raises *)
BodyRaises(kind) ==
    LET errors == task_group.errors \cup {[source |-> supervisor.pc, kind |-> kind]}
    IN  /\ task_group' = [task_group EXCEPT !.exiting = TRUE, !.aborting = TRUE,
                                           !.errors = errors]
        /\ supervisor' = AfterScope(supervisor, RaisedByTaskGroup(errors))
        /\ UNCHANGED <<broker, listener, inbox, tasks, _active_tasks, _task_counter,
                       metrics, recent_actions, configVars, idleVars>>

(* setup_mqtt_subscriptions: both subscribe calls return *)
SubscribeDone ==
    /\ supervisor.pc = "subscribing"
    /\ broker = "up"
    /\ supervisor' = [supervisor EXCEPT !.pc = "preparing",
                                        !.steps = Append(@, "subscribe")]
    /\ UNCHANGED <<broker, skillVars, idleVars>>

(* setup_mqtt_subscriptions: a subscribe call raises MqttError *)
SubscribeRaises ==
    /\ supervisor.pc = "subscribing"
    /\ broker = "down"
    /\ BodyRaises("MqttError")

(* variant: the listener is started without waiting for the preparations *)
PrepareDone_Early ==
    /\ supervisor.pc = "subscribing"
    /\ broker = "up"
    /\ supervisor' = [supervisor EXCEPT !.pc = "serving",
                                        !.steps = Append(Append(@, "subscribe"), "listen")]
    /\ task_group' = [task_group EXCEPT !.exiting = TRUE]
    /\ listener' = Listening
    /\ UNCHANGED <<broker, inbox, tasks, _active_tasks, _task_counter, metrics,
                   recent_actions, configVars, idleVars>>

(* skill_preparations returns: listen_to_messages is created as a task of
   the group, the body ends and the group waits for its tasks *)
PrepareDone ==
    /\ supervisor.pc = "preparing"
    /\ supervisor' = [supervisor EXCEPT !.pc = "serving",
                                        !.steps = Append(Append(@, "prepare"), "listen")]
    /\ task_group' = [task_group EXCEPT !.exiting = TRUE]
    /\ listener' = Listening
    /\ UNCHANGED <<broker, inbox, tasks, _active_tasks, _task_counter, metrics,
                   recent_actions, configVars, idleVars>>

(* skill_preparations raises: RuntimeError when the registration fails,
   MqttError when it uses the lost connection *)
PrepareRaises(kind) ==
    /\ supervisor.pc = "preparing"
    /\ kind = "MqttError" => broker = "down"
    /\ BodyRaises(kind)

(* the broker delivers a message on a subscribed topic *)
Arrive(message) ==
    /\ supervisor.pc \in {"preparing", "serving"}
    /\ Attached
    /\ broker = "up"
    /\ inbox.delivered < MaxMessages
    /\ inbox' = [queue |-> Append(inbox.queue,
                                  [message EXCEPT !.seq = inbox.delivered + 1]),
                 delivered |-> inbox.delivered + 1]
    /\ UNCHANGED <<broker, supervisor, task_group, listener, tasks, _active_tasks,
                   _task_counter, metrics, recent_actions, configVars, idleVars>>

----------------------------------------------------------------------------
(* The task group, add_task and the tasks *)

(* the exception a task of this coroutine ends with when it raises *)
ExceptionOf(task) ==
    IF task.coro = "listen_to_messages" THEN "MqttError" ELSE "Exception"

(* TaskGroup._on_task_done: the exception of a task that raised is added to
   the errors and aborts the group; a cancelled task adds nothing *)
_on_task_done(tg, task) ==
    IF task.state = "raised"
    THEN [tg EXCEPT !.errors = @ \cup {[source |-> task.coro, kind |-> ExceptionOf(task)]},
                    !.aborting = TRUE]
    ELSE tg

(* TaskGroup._abort: cancel() on every task that is not done *)
_abort(task) ==
    IF task.state \in Done THEN task ELSE [task EXCEPT !.must_cancel = TRUE]

(* the tasks and the listener once the callbacks of task have run under tg *)
AfterCallbacks(tg, task, other) ==
    IF task.state = "raised" /\ ~tg.aborting THEN _abort(other) ELSE other

(* variant: the task is created but gets no entry in the registry *)
add_task_Unregistered(coro, message) ==
    /\ tasks' = [t \in DOMAIN tasks \cup {_task_counter} |->
                    IF t = _task_counter THEN Task(coro, message) ELSE tasks[t]]
    /\ _active_tasks' = _active_tasks
    /\ metrics' = record_task_event(metrics, "created")
    /\ _task_counter' = _task_counter + 1

(* BaseSkill.add_task(coro): the task is created in the task group,
   registered under the counter and counted *)
add_task(coro, message) ==
    /\ tasks' = [t \in DOMAIN tasks \cup {_task_counter} |->
                    IF t = _task_counter THEN Task(coro, message) ELSE tasks[t]]
    /\ _active_tasks' = _active_tasks \cup {_task_counter}
    /\ metrics' = record_task_event(metrics, "created")
    /\ _task_counter' = _task_counter + 1

(* variant: the entry stays in the registry *)
_task_completed_KeepsEntry(active, m, task_id, task) ==
    IF task_id \notin active
    THEN [_active_tasks |-> active, metrics |-> m]
    ELSE IF task.state = "raised"
    THEN [_active_tasks |-> active, metrics |-> record_task_event(m, "failed")]
    ELSE [_active_tasks |-> active, metrics |-> record_task_event(m, "completed")]

(* BaseSkill._task_completed(task_id, task): the entry is popped, then
   task.exception() is asked: it raises CancelledError for a cancelled task,
   which ends the callback before any event is recorded *)
_task_completed(active, m, task_id, task) ==
    IF task_id \notin active
    THEN [_active_tasks |-> active, metrics |-> m]
    ELSE CASE task.state = "cancelled" ->
                 [_active_tasks |-> active \ {task_id}, metrics |-> m]
           [] task.state = "raised" ->
                 [_active_tasks |-> active \ {task_id},
                  metrics |-> record_task_event(m, "failed")]
           [] OTHER ->
                 [_active_tasks |-> active \ {task_id},
                  metrics |-> record_task_event(m, "completed")]

(* BaseSkill.get_active_task_count() *)
get_active_task_count == Cardinality(_active_tasks)

(* BaseSkill.get_task_stats(): the counts, and the ids of active_tasks *)
get_task_stats ==
    [active_count |-> Cardinality(_active_tasks), total_created |-> _task_counter,
     active_tasks |-> _active_tasks]

(* the done callbacks of a finished task run, in the order they were added:
   TaskGroup._on_task_done, then BaseSkill._task_completed *)
TaskDone(t) ==
    /\ t \in DOMAIN tasks
    /\ tasks[t].state \in Done
    /\ ~tasks[t].callbacks_run
    /\ task_group' = _on_task_done(task_group, tasks[t])
    /\ tasks' = [u \in DOMAIN tasks |->
                    IF u = t THEN [tasks[t] EXCEPT !.callbacks_run = TRUE]
                    ELSE AfterCallbacks(task_group, tasks[t], tasks[u])]
    /\ listener' = AfterCallbacks(task_group, tasks[t], listener)
    /\ LET completed == _task_completed(_active_tasks, metrics, t, tasks[t])
       IN  /\ _active_tasks' = completed._active_tasks
           /\ metrics' = completed.metrics
    /\ UNCHANGED <<broker, supervisor, inbox, _task_counter, recent_actions,
                   configVars, idleVars>>

(* a task on which cancel() was called is resumed: CancelledError is thrown
   into its coroutine, which no except clause of the skill catches *)
TaskCancelled(t) ==
    /\ t \in DOMAIN tasks
    /\ tasks[t].state \notin Done
    /\ tasks[t].must_cancel
    /\ tasks' = [tasks EXCEPT ![t].state = "cancelled"]
    /\ UNCHANGED <<broker, supervisor, task_group, listener, inbox, _active_tasks,
                   _task_counter, metrics, recent_actions, configVars, idleVars>>

(* code of the skill calls add_task with a coroutine of its own *)
SpawnWork ==
    /\ supervisor.pc = "serving"
    /\ ~task_group.aborting
    /\ _task_counter < MaxTasks
    /\ add_task("work", NoMessage)
    /\ UNCHANGED <<broker, supervisor, task_group, listener, inbox, recent_actions,
                   configVars, idleVars>>

(* the coroutine of the skill returns *)
WorkReturns(t) ==
    /\ t \in DOMAIN tasks
    /\ tasks[t].coro = "work"
    /\ tasks[t].state = "created"
    /\ ~tasks[t].must_cancel
    /\ tasks' = [tasks EXCEPT ![t].state = "returned"]
    /\ UNCHANGED <<broker, supervisor, task_group, listener, inbox, _active_tasks,
                   _task_counter, metrics, recent_actions, configVars, idleVars>>

(* the coroutine of the skill raises an exception *)
WorkRaises(t) ==
    /\ t \in DOMAIN tasks
    /\ tasks[t].coro = "work"
    /\ tasks[t].state = "created"
    /\ ~tasks[t].must_cancel
    /\ tasks' = [tasks EXCEPT ![t].state = "raised"]
    /\ UNCHANGED <<broker, supervisor, task_group, listener, inbox, _active_tasks,
                   _task_counter, metrics, recent_actions, configVars, idleVars>>

(* _handle_device_update: get_skill_devices returns the devices, or an empty
   list on an error; the handler returns *)
DeviceUpdateDone(t) ==
    /\ t \in DOMAIN tasks
    /\ tasks[t].coro = "_handle_device_update"
    /\ tasks[t].state = "created"
    /\ ~tasks[t].must_cancel
    /\ tasks' = [tasks EXCEPT ![t].state = "returned"]
    /\ UNCHANGED <<broker, supervisor, task_group, listener, inbox, _active_tasks,
                   _task_counter, metrics, recent_actions, configVars, idleVars>>

----------------------------------------------------------------------------
(* listen_to_messages and the handling of one message *)

(* async for message in client.messages: the oldest message not yet taken *)
NextMessage(queue) == Head(queue)

(* variant: the payload is decoded on every topic before a task is spawned *)
HandlerOf_DecodesFirst(message) ==
    IF message.payload = "undecodable" THEN "none"
    ELSE IF message.topic = "intent_analysis_result_topic"
    THEN "_handle_message_async"
    ELSE IF message.topic = "device_update_topic"
    THEN "_handle_device_update"
    ELSE "none"

(* the coroutine listen_to_messages hands to add_task for message, "none"
   when it spawns nothing *)
HandlerOf(message) ==
    IF message.topic = "intent_analysis_result_topic"
    THEN IF message.payload = "undecodable" THEN "none" ELSE "_handle_message_async"
    ELSE IF message.topic = "device_update_topic"
    THEN "_handle_device_update"
    ELSE "none"

(* variant: the listener awaits the handler of a message before it takes the next *)
ListenerReady_Awaits ==
    /\ listener.state = "listening"
    /\ ~listener.must_cancel
    /\ \A t \in DOMAIN tasks : tasks[t].coro = "work" \/ tasks[t].state \in Done

(* the listener is suspended in the iteration of client.messages *)
ListenerReady ==
    /\ listener.state = "listening"
    /\ ~listener.must_cancel

(* one iteration of the loop of listen_to_messages: the message is routed
   by its topic and its handler becomes a task; nothing is awaited *)
Dispatch ==
    /\ ListenerReady
    /\ inbox.queue # <<>>
    /\ LET message == NextMessage(inbox.queue)
       IN  /\ inbox' = [inbox EXCEPT !.queue = Tail(@)]
           /\ IF HandlerOf(message) = "none"
              THEN UNCHANGED <<tasks, _active_tasks, _task_counter, metrics>>
              ELSE /\ _task_counter < MaxTasks
                   /\ add_task(HandlerOf(message), message)
    /\ UNCHANGED <<broker, supervisor, task_group, listener, recent_actions,
                   configVars, idleVars>>

(* the connection is lost: the iteration of client.messages raises MqttError *)
ListenerRaises ==
    /\ ListenerReady
    /\ broker = "down"
    /\ listener' = [listener EXCEPT !.state = "raised"]
    /\ UNCHANGED <<broker, supervisor, task_group, inbox, tasks, _active_tasks,
                   _task_counter, metrics, recent_actions, configVars, idleVars>>

(* the listener is resumed after cancel() was called on it *)
ListenerCancelled ==
    /\ listener.state = "listening"
    /\ listener.must_cancel
    /\ listener' = [listener EXCEPT !.state = "cancelled"]
    /\ UNCHANGED <<broker, supervisor, task_group, inbox, tasks, _active_tasks,
                   _task_counter, metrics, recent_actions, configVars, idleVars>>

(* the done callback of the listener runs: TaskGroup._on_task_done *)
ListenerDone ==
    /\ listener.state \in Done
    /\ ~listener.callbacks_run
    /\ task_group' = _on_task_done(task_group, listener)
    /\ listener' = [listener EXCEPT !.callbacks_run = TRUE]
    /\ tasks' = [u \in DOMAIN tasks |-> AfterCallbacks(task_group, listener, tasks[u])]
    /\ UNCHANGED <<broker, supervisor, inbox, _active_tasks, _task_counter, metrics,
                   recent_actions, configVars, idleVars>>

(* the group has no task left: its __aexit__ raises what it collected, the
   client is left and the exception reaches the except clause *)
ScopeUnwinds ==
    /\ supervisor.pc = "serving"
    /\ listener.callbacks_run
    /\ \A t \in DOMAIN tasks : tasks[t].callbacks_run
    /\ supervisor' = AfterScope(supervisor, RaisedByTaskGroup(task_group.errors))
    /\ UNCHANGED <<broker, skillVars, idleVars>>

(* variant: every payload validates *)
model_validate_json_Lenient(message) == TRUE

(* IntentRequest.model_validate_json(payload): FALSE stands for ValidationError *)
model_validate_json(message) == message.payload = "valid"

(* the except clauses of handle_client_request_message: the error is logged
   and the message counted as failed *)
MessageFailed(m) ==
    record_log_event(record_message_processed(m, FALSE), "ERROR")

(* variant: an accepted intent is recorded before process_request is awaited *)
HandleMessageStarts_RecordsEarly(t) ==
    /\ t \in DOMAIN tasks
    /\ tasks[t].coro = "_handle_message_async"
    /\ tasks[t].state = "created"
    /\ ~tasks[t].must_cancel
    /\ LET message == tasks[t].message
           decision == _should_handle_intent(message.intent_type, message.confidence,
                                             supported_intents, confidence_modifiers,
                                             recent_actions, now)
       IN  IF ~model_validate_json(message)
           THEN /\ metrics' = MessageFailed(metrics)
                /\ tasks' = [tasks EXCEPT ![t].state = "returned"]
                /\ UNCHANGED recent_actions
           ELSE /\ recent_actions' =
                     IF decision.should_handle
                     THEN add_action(ContextAfterDecision(message.intent_type,
                                                          supported_intents,
                                                          confidence_modifiers,
                                                          recent_actions, now),
                                     message.intent_type, now, max_recent_actions)
                     ELSE ContextAfterDecision(message.intent_type, supported_intents,
                                               confidence_modifiers, recent_actions, now)
                /\ IF decision.should_handle
                   THEN /\ tasks' = [tasks EXCEPT ![t].state = "process_request",
                                                  ![t].process_requests = @ + 1]
                        /\ UNCHANGED metrics
                   ELSE /\ tasks' = [tasks EXCEPT ![t].state = "returned"]
                        /\ metrics' = record_message_processed(metrics, TRUE)
    /\ UNCHANGED <<broker, supervisor, task_group, listener, inbox, _active_tasks,
                   _task_counter, configVars, idleVars>>

(* the task of a message runs for the first time: handle_client_request_message
   validates the payload, decides, and awaits process_request when it accepts *)
HandleMessageStarts(t) ==
    /\ t \in DOMAIN tasks
    /\ tasks[t].coro = "_handle_message_async"
    /\ tasks[t].state = "created"
    /\ ~tasks[t].must_cancel
    /\ LET message == tasks[t].message
           decision == _should_handle_intent(message.intent_type, message.confidence,
                                             supported_intents, confidence_modifiers,
                                             recent_actions, now)
       IN  IF ~model_validate_json(message)
           THEN /\ metrics' = MessageFailed(metrics)
                /\ tasks' = [tasks EXCEPT ![t].state = "returned"]
                /\ UNCHANGED recent_actions
           ELSE /\ recent_actions' = ContextAfterDecision(message.intent_type,
                                                          supported_intents,
                                                          confidence_modifiers,
                                                          recent_actions, now)
                /\ IF decision.should_handle
                   THEN /\ tasks' = [tasks EXCEPT ![t].state = "process_request",
                                                  ![t].process_requests = @ + 1]
                        /\ UNCHANGED metrics
                   ELSE /\ tasks' = [tasks EXCEPT ![t].state = "returned"]
                        /\ metrics' = record_message_processed(metrics, TRUE)
    /\ UNCHANGED <<broker, supervisor, task_group, listener, inbox, _active_tasks,
                   _task_counter, configVars, idleVars>>

(* variant: the action is recorded whether process_request returned or raised *)
ProcessRequestRaises_Recorded(t) ==
    /\ t \in DOMAIN tasks
    /\ tasks[t].state = "process_request"
    /\ ~tasks[t].must_cancel
    /\ metrics' = MessageFailed(metrics)
    /\ recent_actions' = add_action(recent_actions, tasks[t].message.intent_type, now,
                                    max_recent_actions)
    /\ tasks' = [tasks EXCEPT ![t].state = "returned", ![t].process_raised = TRUE,
                              ![t].actions_added = @ + 1]
    /\ UNCHANGED <<broker, supervisor, task_group, listener, inbox, _active_tasks,
                   _task_counter, configVars, idleVars>>

(* process_request raises: the generic except clause logs it and counts the
   message as failed; handle_client_request_message returns *)
ProcessRequestRaises(t) ==
    /\ t \in DOMAIN tasks
    /\ tasks[t].state = "process_request"
    /\ ~tasks[t].must_cancel
    /\ metrics' = MessageFailed(metrics)
    /\ tasks' = [tasks EXCEPT ![t].state = "returned", ![t].process_raised = TRUE]
    /\ UNCHANGED <<broker, supervisor, task_group, listener, inbox, _active_tasks,
                   _task_counter, recent_actions, configVars, idleVars>>

(* process_request returns: the message is counted as processed and the
   intent recorded in the context *)
ProcessRequestReturns(t) ==
    /\ t \in DOMAIN tasks
    /\ tasks[t].state = "process_request"
    /\ ~tasks[t].must_cancel
    /\ metrics' = record_message_processed(metrics, TRUE)
    /\ recent_actions' = add_action(recent_actions, tasks[t].message.intent_type, now,
                                    max_recent_actions)
    /\ tasks' = [tasks EXCEPT ![t].state = "returned", ![t].actions_added = @ + 1]
    /\ UNCHANGED <<broker, supervisor, task_group, listener, inbox, _active_tasks,
                   _task_counter, configVars, idleVars>>

NextSkill ==
    \/ BrokerGoesDown
    \/ BrokerComesUp
    \/ ConnectFails
    \/ SleepEnds
    \/ ConnectSucceeds
    \/ SubscribeDone
    \/ SubscribeRaises
    \/ PrepareDone
    \/ \E kind \in {"MqttError", "RuntimeError"} : PrepareRaises(kind)
    \/ \E message \in Inbound : Arrive(message)
    \/ Dispatch
    \/ ListenerRaises
    \/ ListenerCancelled
    \/ ListenerDone
    \/ ScopeUnwinds
    \/ SpawnWork
    \/ \E t \in 0..(MaxTasks - 1) :
          \/ TaskDone(t)
          \/ TaskCancelled(t)
          \/ WorkReturns(t)
          \/ WorkRaises(t)
          \/ DeviceUpdateDone(t)
          \/ HandleMessageStarts(t)
          \/ ProcessRequestRaises(t)
          \/ ProcessRequestReturns(t)

(* mqtt_connection_handler is called: nothing is connected, no skill exists *)
InitSkill ==
    /\ supported_intents = <<>>
    /\ confidence_modifiers = [i \in IntentType |-> <<>>]
    /\ max_recent_actions = DefaultMaxRecentActions
    /\ recent_actions = <<>>
    /\ now = 0
    /\ processing = {}
    /\ lastDecision = NoDecision
    /\ lastTrigger = NeverRecorded
    /\ calls = [c \in Calls |-> IdleCall]
    /\ metrics = PerformanceMetrics
    /\ broker \in {"up", "down"}
    /\ supervisor = Supervisor(DefaultRetryInterval)
    /\ task_group = NoTaskGroup
    /\ listener = NoListener
    /\ inbox = EmptyInbox
    /\ tasks = NoTasks
    /\ _active_tasks = {}
    /\ _task_counter = 0
    /\ lookup = NoLookup
    /\ database = EmptyDatabase
    /\ registry_calls = NoRegistryCalls
    /\ cache = NoCache
    /\ outbox = <<>>
    /\ logger = NoLogger

SpecSkill == InitSkill /\ [][NextSkill]_vars

(* the handler and its listener alone, before any message is dispatched *)
NextSupervisor ==
    \/ BrokerGoesDown
    \/ BrokerComesUp
    \/ ConnectFails
    \/ SleepEnds
    \/ ConnectSucceeds
    \/ SubscribeDone
    \/ SubscribeRaises
    \/ PrepareDone
    \/ \E kind \in {"MqttError", "RuntimeError"} : PrepareRaises(kind)
    \/ \E message \in Inbound : Arrive(message)
    \/ ListenerRaises
    \/ ListenerDone
    \/ ScopeUnwinds

(* mqtt_connection_handler is called with one of the retry intervals *)
InitSupervisor ==
    /\ supported_intents = <<>>
    /\ confidence_modifiers = [i \in IntentType |-> <<>>]
    /\ max_recent_actions = DefaultMaxRecentActions
    /\ recent_actions = <<>>
    /\ now = 0
    /\ processing = {}
    /\ lastDecision = NoDecision
    /\ lastTrigger = NeverRecorded
    /\ calls = [c \in Calls |-> IdleCall]
    /\ metrics = PerformanceMetrics
    /\ broker \in {"up", "down"}
    /\ supervisor \in {Supervisor(retry_interval) : retry_interval \in RetryIntervals}
    /\ task_group = NoTaskGroup
    /\ listener = NoListener
    /\ inbox = EmptyInbox
    /\ tasks = NoTasks
    /\ _active_tasks = {}
    /\ _task_counter = 0
    /\ lookup = NoLookup
    /\ database = EmptyDatabase
    /\ registry_calls = NoRegistryCalls
    /\ cache = NoCache
    /\ outbox = <<>>
    /\ logger = NoLogger

(* the event loop resumes the handler when its connection attempt or its
   sleep has ended *)
SpecSupervisor ==
    /\ InitSupervisor
    /\ [][NextSupervisor]_vars
    /\ WF_vars(ConnectFails)
    /\ WF_vars(ConnectSucceeds)
    /\ WF_vars(SleepEnds)

----------------------------------------------------------------------------
(* SkillContext.add_action on a context of any configured size *)

(* a skill calls add_action(action) on its context *)
AddAction(action) ==
    /\ Len(recent_actions) < MaxActions
    /\ recent_actions' = add_action(recent_actions, action, now, max_recent_actions)
    /\ UNCHANGED <<supported_intents, confidence_modifiers, max_recent_actions, now,
                   processing, lastDecision, lastTrigger, publishVars, runtimeVars, serviceVars>>

NextContext ==
    \/ \E action \in IntentType : AddAction(action)
    \/ Tick

(* SkillContext(skill_name, max_recent_actions = m) *)
InitContext ==
    /\ supported_intents = <<>>
    /\ confidence_modifiers = [i \in IntentType |-> <<>>]
    /\ max_recent_actions \in 0..MaxRecentActions
    /\ recent_actions = <<>>
    /\ now = 0
    /\ processing = {}
    /\ lastDecision = NoDecision
    /\ lastTrigger = NeverRecorded
    /\ calls = [c \in Calls |-> IdleCall]
    /\ metrics = PerformanceMetrics
    /\ broker = "up"
    /\ supervisor = ServingSupervisor
    /\ task_group = [NoTaskGroup EXCEPT !.entered = TRUE, !.exiting = TRUE]
    /\ listener = Listening
    /\ inbox = EmptyInbox
    /\ tasks = NoTasks
    /\ _active_tasks = {}
    /\ _task_counter = 0
    /\ lookup = NoLookup
    /\ database = EmptyDatabase
    /\ registry_calls = NoRegistryCalls
    /\ cache = NoCache
    /\ outbox = <<>>
    /\ logger = NoLogger

SpecContext == InitContext /\ [][NextContext]_vars

----------------------------------------------------------------------------
(* SkillContext.find_recent_action called on its own *)

(* the within_seconds arguments of the calls: omitted, shorter than the
   recency window, equal to it and longer *)
WithinSeconds == {{}, {100}, {recency_window_seconds}, {400}}

(* time_window = within_seconds if within_seconds is not None else
   self.recency_window_seconds *)
time_window(within_seconds) ==
    IF within_seconds = {} THEN recency_window_seconds
    ELSE CHOOSE w \in within_seconds : TRUE

(* one call of find_recent_action: the context is pruned, then scanned *)
FindRecentAction(action, within_seconds) ==
    /\ recent_actions' = _cleanup_expired_actions(recent_actions, now)
    /\ lookup' = [action |-> action, within_seconds |-> within_seconds, at |-> now,
                  before |-> recent_actions,
                  after |-> _cleanup_expired_actions(recent_actions, now),
                  result |-> find_recent_action(recent_actions, action,
                                                time_window(within_seconds), now)]
    /\ UNCHANGED <<configVars, now, processing, lastDecision, lastTrigger, publishVars,
                   runtimeVars, database, registry_calls, cache, outbox, logger>>

(* one call of add_action by the owner of the context; what an earlier
   lookup returned is no longer looked at *)
RecordAction(action) ==
    /\ recent_actions' = add_action(recent_actions, action, now, max_recent_actions)
    /\ lookup' = NoLookup
    /\ UNCHANGED <<configVars, now, processing, lastDecision, lastTrigger, publishVars,
                   runtimeVars, database, registry_calls, cache, outbox, logger>>

NextLookup ==
    \/ \E action \in IntentType : RecordAction(action)
    \/ \E action \in IntentType, within_seconds \in WithinSeconds :
          FindRecentAction(action, within_seconds)
    \/ Tick

(* SkillContext(skill_name, max_recent_actions = m), m >= 1 *)
InitLookup ==
    /\ supported_intents = <<>>
    /\ confidence_modifiers = [i \in IntentType |-> <<>>]
    /\ max_recent_actions \in 1..MaxRecentActions
    /\ recent_actions = <<>>
    /\ now = 0
    /\ processing = {}
    /\ lastDecision = NoDecision
    /\ lastTrigger = NeverRecorded
    /\ calls = [c \in Calls |-> IdleCall]
    /\ metrics = PerformanceMetrics
    /\ broker = "up"
    /\ supervisor = ServingSupervisor
    /\ task_group = [NoTaskGroup EXCEPT !.entered = TRUE, !.exiting = TRUE]
    /\ listener = Listening
    /\ inbox = EmptyInbox
    /\ tasks = NoTasks
    /\ _active_tasks = {}
    /\ _task_counter = 0
    /\ lookup = NoLookup
    /\ database = EmptyDatabase
    /\ registry_calls = NoRegistryCalls
    /\ cache = NoCache
    /\ outbox = <<>>
    /\ logger = NoLogger

SpecLookup == InitLookup /\ [][NextLookup]_vars

----------------------------------------------------------------------------
(* The device registry: DeviceRegistryMixin and BaseSkill.register_device *)

RegistryCallIds == {"registry_1", "registry_2"}

(* the devices the calls name: one is stored from the start *)
Devices == {"lamp", "fan"}

MixinOps == {"register_device", "update_device", "delete_device"}

RegistryOps == MixinOps \cup {"BaseSkill.register_device"}

(* the database stops answering, or answers again *)
DatabaseGoesDown ==
    /\ database.up
    /\ database' = [database EXCEPT !.up = FALSE]
    /\ UNCHANGED <<intentVars, publishVars, runtimeVars, lookup, registry_calls, cache,
                   outbox, logger>>

DatabaseComesUp ==
    /\ ~database.up
    /\ database' = [database EXCEPT !.up = TRUE]
    /\ UNCHANGED <<intentVars, publishVars, runtimeVars, lookup, registry_calls, cache,
                   outbox, logger>>

(* the except clause of the call: the mixin logs and returns None or False,
   BaseSkill.register_device raises RuntimeError *)
RegistryCallFails(call) ==
    [call EXCEPT !.pc = "returned",
                 !.result = CASE call.op \in {"register_device", "update_device"} -> "None"
                              [] call.op = "delete_device" -> "False"
                              [] OTHER -> "RuntimeError"]

(* the call is made: it enters its try block and opens a session *)
RegistryCallStarts(c, op, device) ==
    /\ registry_calls[c].pc = "idle"
    /\ registry_calls' =
          [registry_calls EXCEPT ![c] =
              [IdleRegistryCall EXCEPT !.op = op, !.device = device,
                                       !.pc = IF op = "register_device"
                                              THEN "committing" ELSE "selecting"]]
    /\ UNCHANGED <<intentVars, publishVars, runtimeVars, lookup, database, cache, outbox,
                   logger>>

(* variant: a device that is not found is notified all the same *)
SelectDevice_NotifiesMissing(c) ==
    LET call == registry_calls[c]
    IN  /\ call.pc = "selecting"
        /\ registry_calls' =
              [registry_calls EXCEPT ![c] =
                  IF ~database.up THEN RegistryCallFails(call)
                  ELSE IF call.op = "BaseSkill.register_device"
                  THEN IF call.device \in database.devices
                       THEN [call EXCEPT !.pc = "returned", !.result = "id"]
                       ELSE [call EXCEPT !.pc = "committing"]
                  ELSE IF call.device \in database.devices
                       THEN [call EXCEPT !.pc = "committing"]
                       ELSE [call EXCEPT !.pc = "publishing"]]
        /\ UNCHANGED <<intentVars, publishVars, runtimeVars, lookup, database, cache,
                       outbox, logger>>

(* the select of the call: update_device and delete_device look for the
   device of this skill and return None or False when there is none;
   BaseSkill.register_device looks for a duplicate and returns its id *)
SelectDevice(c) ==
    LET call == registry_calls[c]
    IN  /\ call.pc = "selecting"
        /\ registry_calls' =
              [registry_calls EXCEPT ![c] =
                  IF ~database.up THEN RegistryCallFails(call)
                  ELSE IF call.op = "BaseSkill.register_device"
                  THEN IF call.device \in database.devices
                       THEN [call EXCEPT !.pc = "returned", !.result = "id"]
                       ELSE [call EXCEPT !.pc = "committing"]
                  ELSE IF call.device \in database.devices
                       THEN [call EXCEPT !.pc = "committing"]
                       ELSE [call EXCEPT !.pc = "returned",
                                         !.result = IF call.op = "delete_device"
                                                    THEN "False" ELSE "None"]]
        /\ UNCHANGED <<intentVars, publishVars, runtimeVars, lookup, database, cache,
                       outbox, logger>>

(* the rows of the devices table once the call has committed *)
DevicesAfter(call, devices) ==
    IF call.op = "delete_device" THEN devices \ {call.device}
    ELSE devices \cup {call.device}

(* session.commit(): it raises when the database is down, or when the row
   selected was deleted in the meantime; otherwise the change is stored *)
CommitDevice(c) ==
    LET call == registry_calls[c]
        stale == /\ call.op \in {"update_device", "delete_device"}
                 /\ call.device \notin database.devices
    IN  /\ call.pc = "committing"
        /\ IF ~database.up \/ stale
           THEN /\ registry_calls' = [registry_calls EXCEPT ![c] = RegistryCallFails(call)]
                /\ UNCHANGED database
           ELSE /\ database' = [database EXCEPT !.version = @ + 1,
                                                !.devices = DevicesAfter(call, @)]
                /\ registry_calls' =
                      [registry_calls EXCEPT ![c].committed = database.version + 1,
                                             ![c].pc = IF call.op = "delete_device"
                                                       THEN "publishing" ELSE "refreshing"]
        /\ UNCHANGED <<intentVars, publishVars, runtimeVars, lookup, cache, outbox, logger>>

(* session.refresh(device) after the commit *)
RefreshDevice(c) ==
    LET call == registry_calls[c]
    IN  /\ call.pc = "refreshing"
        /\ registry_calls' =
              [registry_calls EXCEPT ![c] =
                  IF database.up THEN [call EXCEPT !.pc = "publishing"]
                  ELSE RegistryCallFails(call)]
        /\ UNCHANGED <<intentVars, publishVars, runtimeVars, lookup, database, cache,
                       outbox, logger>>

(* the publish call of _publish_device_update (qos 1) and of
   BaseSkill.publish_device_update (default qos) *)
DeviceUpdate(c, op, version, outcome) ==
    [topic |-> "device_update_topic", payload |-> "",
     qos |-> IF op \in MixinOps THEN 1 ELSE 0, retain |-> FALSE,
     by |-> c, version |-> version, outcome |-> outcome]

(* the notification: mqtt_client.publish is awaited once; an exception it
   raises is logged and swallowed; the mixin's call then returns the device
   or True, BaseSkill.register_device goes on to reload its devices *)
PublishDeviceUpdate(c) ==
    LET call == registry_calls[c]
    IN  /\ call.pc = "publishing"
        /\ outbox' = Append(outbox,
                            DeviceUpdate(c, call.op, database.version,
                                         IF broker = "up" THEN "sent" ELSE "raised"))
        /\ registry_calls' =
              [registry_calls EXCEPT ![c] =
                  CASE call.op = "BaseSkill.register_device" ->
                          [call EXCEPT !.pc = "reloading"]
                    [] call.op = "delete_device" ->
                          [call EXCEPT !.pc = "returned", !.result = "True"]
                    [] OTHER ->
                          [call EXCEPT !.pc = "returned", !.result = "device"]]
        /\ UNCHANGED <<intentVars, publishVars, runtimeVars, lookup, database, cache,
                       logger>>

(* variant: a failed query reaches the caller *)
get_skill_devices_Raising(db) ==
    IF db.up THEN "list" ELSE "raised"

(* BaseSkill.get_skill_devices: the list of the skill's devices, or the
   empty list when the query raises *)
get_skill_devices(db) ==
    IF db.up THEN "list" ELSE "empty"

(* BaseSkill.register_device reloads global_devices and returns the id *)
ReloadDevices(c) ==
    /\ registry_calls[c].pc = "reloading"
    /\ registry_calls' =
          [registry_calls EXCEPT ![c].loaded = get_skill_devices(database),
                                 ![c].pc = "returned", ![c].result = "id"]
    /\ UNCHANGED <<intentVars, publishVars, runtimeVars, lookup, database, cache, outbox,
                   logger>>

NextRegistry ==
    \/ \E c \in RegistryCallIds, op \in RegistryOps, device \in Devices :
          RegistryCallStarts(c, op, device)
    \/ \E c \in RegistryCallIds : SelectDevice(c)
    \/ \E c \in RegistryCallIds : CommitDevice(c)
    \/ \E c \in RegistryCallIds : RefreshDevice(c)
    \/ \E c \in RegistryCallIds : PublishDeviceUpdate(c)
    \/ \E c \in RegistryCallIds : ReloadDevices(c)
    \/ DatabaseGoesDown
    \/ DatabaseComesUp
    \/ BrokerGoesDown
    \/ BrokerComesUp

(* a running skill whose registry holds one device *)
InitRegistry ==
    /\ supported_intents = SkillClass.supported_intents
    /\ confidence_modifiers = SkillClass.confidence_modifiers
    /\ max_recent_actions = DefaultMaxRecentActions
    /\ recent_actions = <<>>
    /\ now = 0
    /\ processing = {}
    /\ lastDecision = NoDecision
    /\ lastTrigger = NeverRecorded
    /\ calls = [c \in Calls |-> IdleCall]
    /\ metrics = PerformanceMetrics
    /\ broker = "up"
    /\ supervisor = ServingSupervisor
    /\ task_group = [NoTaskGroup EXCEPT !.entered = TRUE, !.exiting = TRUE]
    /\ listener = Listening
    /\ inbox = EmptyInbox
    /\ tasks = NoTasks
    /\ _active_tasks = {}
    /\ _task_counter = 0
    /\ lookup = NoLookup
    /\ database = [EmptyDatabase EXCEPT !.devices = {"lamp"}]
    /\ registry_calls = [c \in RegistryCallIds |-> IdleRegistryCall]
    /\ cache = NoCache
    /\ outbox = <<>>
    /\ logger = NoLogger

SpecRegistry == InitRegistry /\ [][NextRegistry]_vars

----------------------------------------------------------------------------
(* The bounded cache of recent requests *)

(* the request ids used as keys: more than the cache can hold *)
CacheKeys == 1..(MaxCapacity + 2)

CacheValues == {"request", "request_again"}

(* the position of key in entries, 0 when it is absent *)
PositionOf(entries, key) ==
    IF \E i \in 1..Len(entries) : entries[i].key = key
    THEN CHOOSE i \in 1..Len(entries) : entries[i].key = key
    ELSE 0

(* entries without the one at position i *)
Without(entries, i) ==
    [j \in 1..(Len(entries) - 1) |-> IF j < i THEN entries[j] ELSE entries[j + 1]]

(* variant: a key that exists is overwritten where it is *)
cache_set_InPlace(entries, max_size, key, value) ==
    LET i == PositionOf(entries, key)
    IN  IF i > 0
        THEN [entries EXCEPT ![i].value = value]
        ELSE IF Len(entries) >= max_size
        THEN Append(Tail(entries), [key |-> key, value |-> value])
        ELSE Append(entries, [key |-> key, value |-> value])

(* set(key, value): an existing key moves to the most-recently-used end with
   the new value; otherwise the least recently used entry is evicted when
   the cache is at capacity, and the entry is inserted *)
cache_set(entries, max_size, key, value) ==
    LET i == PositionOf(entries, key)
    IN  IF i > 0
        THEN Append(Without(entries, i), [key |-> key, value |-> value])
        ELSE IF Len(entries) >= max_size
        THEN Append(Tail(entries), [key |-> key, value |-> value])
        ELSE Append(entries, [key |-> key, value |-> value])

(* one set call; the event loop runs it without interruption *)
CacheSet(key, value) ==
    /\ Len(cache.touched) < MaxSets
    /\ cache' = [cache EXCEPT
                    !.entries = cache_set(@, cache.max_size, key, value),
                    !.touched = Append(@, [key |-> key, value |-> value]),
                    !.last = [present |-> PositionOf(cache.entries, key) > 0,
                              size |-> Len(cache.entries)]]
    /\ UNCHANGED <<intentVars, publishVars, runtimeVars, lookup, database,
                   registry_calls, outbox, logger>>

NextCache == \E key \in CacheKeys, value \in CacheValues : CacheSet(key, value)

(* an empty cache of some capacity *)
InitCache ==
    /\ supported_intents = SkillClass.supported_intents
    /\ confidence_modifiers = SkillClass.confidence_modifiers
    /\ max_recent_actions = DefaultMaxRecentActions
    /\ recent_actions = <<>>
    /\ now = 0
    /\ processing = {}
    /\ lastDecision = NoDecision
    /\ lastTrigger = NeverRecorded
    /\ calls = [c \in Calls |-> IdleCall]
    /\ metrics = PerformanceMetrics
    /\ broker = "up"
    /\ supervisor = ServingSupervisor
    /\ task_group = [NoTaskGroup EXCEPT !.entered = TRUE, !.exiting = TRUE]
    /\ listener = Listening
    /\ inbox = EmptyInbox
    /\ tasks = NoTasks
    /\ _active_tasks = {}
    /\ _task_counter = 0
    /\ lookup = NoLookup
    /\ database = EmptyDatabase
    /\ registry_calls = NoRegistryCalls
    /\ \E max_size \in 1..MaxCapacity : cache = [NoCache EXCEPT !.max_size = max_size]
    /\ outbox = <<>>
    /\ logger = NoLogger

SpecCache == InitCache /\ [][NextCache]_vars

----------------------------------------------------------------------------
(* BaseSkill.publish_with_alert, send_response and broadcast_response *)

(* self.default_alert = Alert(play_before=True), and an alert a caller passes *)
default_alert == [play_before |-> TRUE, play_after |-> FALSE]

ChimeAfter == [play_before |-> FALSE, play_after |-> TRUE]

(* a ClientRequest with its output topic *)
ClientRequest == [output_topic |-> "assistant/client/output"]

broadcast_topic == "assistant/comms_bridge/broadcast"

(* Response(text=response_text, alert=alert) *)
Response(alert) == [text |-> "response_text", alert |-> alert]

(* send_response and broadcast_response: the topic and the alert they pass
   to _send_response_with_retry *)
send_response(client_request, alert) ==
    [topic |-> client_request.output_topic, alert |-> alert,
     operation |-> "send_response"]

broadcast_response(alert) ==
    [topic |-> broadcast_topic, alert |-> alert, operation |-> "broadcast_response"]

(* variant: a client request that is given wins over the broadcast flag *)
publish_with_alert_ClientFirst(broadcast, client_request, alert) ==
    LET given == IF alert = {} THEN {default_alert} ELSE alert
    IN  IF client_request # {}
        THEN [raised |-> "None",
              sends |-> <<send_response(CHOOSE r \in client_request : TRUE, given)>>]
        ELSE IF broadcast
        THEN [raised |-> "None", sends |-> <<broadcast_response(given)>>]
        ELSE [raised |-> "ValueError", sends |-> <<>>]

(* publish_with_alert: the calls it makes, or the exception it raises *)
publish_with_alert(broadcast, client_request, alert) ==
    LET given == IF alert = {} THEN {default_alert} ELSE alert
    IN  IF broadcast
        THEN [raised |-> "None", sends |-> <<broadcast_response(given)>>]
        ELSE IF client_request # {}
        THEN [raised |-> "None",
              sends |-> <<send_response(CHOOSE r \in client_request : TRUE, given)>>]
        ELSE [raised |-> "ValueError", sends |-> <<>>]

(* what _send_response_with_retry passes to mqtt_client.publish in every
   attempt of the call *)
PublishArguments(c, send) ==
    [by |-> c, topic |-> send.topic, payload |-> Response(send.alert),
     qos |-> 1, retain |-> FALSE]

RECURSIVE ArgumentsOf(_, _)
ArgumentsOf(c, sends) ==
    IF sends = <<>> THEN <<>>
    ELSE <<PublishArguments(c, Head(sends))>> \o ArgumentsOf(c, Tail(sends))

(* the script of the calls made through publish_with_alert: the publish
   succeeds at once, after one failure, or never *)
AlertScripts == {0, 1, DefaultMaxRetries + 1}

(* publish_with_alert is called: it raises ValueError, or its
   _send_response_with_retry call starts with the default max_retries and
   awaits its first publish attempt *)
PublishWithAlert(c, broadcast, client_request, alert, script) ==
    LET routed == publish_with_alert(broadcast, client_request, alert)
        request == [via |-> "publish_with_alert", broadcast |-> broadcast,
                    client_request |-> client_request, alert |-> alert]
    IN  /\ calls[c].pc = "idle"
        /\ calls' = [calls EXCEPT ![c] =
                        IF routed.raised # "None"
                        THEN [IdleCall EXCEPT !.pc = "raised", !.raised = routed.raised,
                                              !.request = request]
                        ELSE [IdleCall EXCEPT !.pc = "publishing",
                                              !.max_retries = DefaultMaxRetries,
                                              !.script = script, !.attempt = 0,
                                              !.publishes = 1, !.request = request]]
        /\ outbox' = outbox \o ArgumentsOf(c, routed.sends)
        /\ UNCHANGED <<metrics, intentVars, runtimeVars, lookup, database, registry_calls,
                       cache, logger>>

NextAlert ==
    \/ \E c \in Calls, broadcast \in BOOLEAN, client_request \in {{}, {ClientRequest}},
          alert \in {{}, {ChimeAfter}}, script \in AlertScripts :
             PublishWithAlert(c, broadcast, client_request, alert, script)
    \/ \E c \in Calls : PublishSucceeds(c)
    \/ \E c \in Calls : PublishFails(c, "MqttError")
    \/ \E c \in Calls : Wake(c)
    \/ \E c \in Calls : Cancel(c)

SpecAlert == InitPublish /\ [][NextAlert]_vars

----------------------------------------------------------------------------
(* Skill.ensure_exists (database/skill_models.py) *)

SkillNames == {"switch-skill", "media-skill"}

(* the help_text arguments: None and two texts *)
HelpTexts == {{}, {"switches"}, {"switches and plugs"}}

(* no row: what get_by_name returns when the name is not stored *)
NoSkillRow ==
    [id |-> 0, name |-> "none", help_text |-> {}, created_at |-> 0, updated_at |-> 0]

(* the caller of ensure_exists, one call after the other; returned collects
   the ids its calls returned for each name *)
IdleEnsureCall ==
    [op |-> "Skill.ensure_exists", name |-> "none", help_text |-> {}, pc |-> "idle",
     staged |-> NoSkillRow, result |-> 0, made |-> 0,
     returned |-> [n \in SkillNames |-> {}]]

(* get_by_name: the first row with the name, or none *)
get_by_name(skills, name) ==
    IF \E i \in 1..Len(skills) : skills[i].name = name
    THEN skills[CHOOSE i \in 1..Len(skills) :
                   /\ skills[i].name = name
                   /\ \A j \in 1..(i - 1) : skills[j].name # name]
    ELSE NoSkillRow

(* variant: the help text passed is stored whenever it differs, None too *)
ensure_exists_StoresNone(found, name, help_text, t, new_id) ==
    IF found = NoSkillRow
    THEN [id |-> new_id, name |-> name, help_text |-> help_text,
          created_at |-> t, updated_at |-> t]
    ELSE IF found.help_text # help_text
    THEN [found EXCEPT !.help_text = help_text, !.updated_at = t]
    ELSE found

(* the row ensure_exists hands to the session before it commits: a new row
   when none was found, the row with the new help text and time when a
   different help text was passed, the row as found otherwise *)
ensure_exists(found, name, help_text, t, new_id) ==
    IF found = NoSkillRow
    THEN [id |-> new_id, name |-> name, help_text |-> help_text,
          created_at |-> t, updated_at |-> t]
    ELSE IF help_text # {} /\ found.help_text # help_text
    THEN [found EXCEPT !.help_text = help_text, !.updated_at = t]
    ELSE found

(* the skills table once row is committed *)
StoreSkill(skills, row) ==
    IF \E i \in 1..Len(skills) : skills[i].id = row.id
    THEN [i \in 1..Len(skills) |-> IF skills[i].id = row.id THEN row ELSE skills[i]]
    ELSE Append(skills, row)

(* the call is made *)
EnsureExistsStarts(name, help_text) ==
    LET call == registry_calls["ensure_exists"]
    IN  /\ call.pc \in {"idle", "returned", "raised"}
        /\ call.made < MaxEnsureCalls
        /\ registry_calls' =
              [registry_calls EXCEPT !["ensure_exists"] =
                  [call EXCEPT !.name = name, !.help_text = help_text,
                               !.pc = "get_by_name", !.staged = NoSkillRow,
                               !.result = 0, !.made = @ + 1]]
        /\ UNCHANGED <<intentVars, publishVars, runtimeVars, lookup, database, cache,
                       outbox, logger>>

(* await cls.get_by_name(session, name), then the row is created or changed
   in the session *)
EnsureExistsSelects ==
    LET call == registry_calls["ensure_exists"]
    IN  /\ call.pc = "get_by_name"
        /\ registry_calls' =
              [registry_calls EXCEPT !["ensure_exists"] =
                  IF ~database.up THEN [call EXCEPT !.pc = "raised"]
                  ELSE [call EXCEPT
                          !.pc = "committing",
                          !.staged = ensure_exists(get_by_name(database.skills, call.name),
                                                   call.name, call.help_text, now,
                                                   Len(database.skills) + 1)]]
        /\ UNCHANGED <<intentVars, publishVars, runtimeVars, lookup, database, cache,
                       outbox, logger>>

(* await session.commit() *)
EnsureExistsCommits ==
    LET call == registry_calls["ensure_exists"]
    IN  /\ call.pc = "committing"
        /\ IF database.up
           THEN /\ database' = [database EXCEPT !.skills = StoreSkill(@, call.staged)]
                /\ registry_calls' = [registry_calls EXCEPT
                                         !["ensure_exists"].pc = "refreshing"]
           ELSE /\ registry_calls' = [registry_calls EXCEPT
                                         !["ensure_exists"].pc = "raised"]
                /\ UNCHANGED database
        /\ UNCHANGED <<intentVars, publishVars, runtimeVars, lookup, cache, outbox, logger>>

(* await session.refresh(skill); return skill *)
EnsureExistsReturns ==
    LET call == registry_calls["ensure_exists"]
    IN  /\ call.pc = "refreshing"
        /\ registry_calls' =
              [registry_calls EXCEPT !["ensure_exists"] =
                  IF ~database.up THEN [call EXCEPT !.pc = "raised"]
                  ELSE [call EXCEPT !.pc = "returned", !.result = call.staged.id,
                                    !.returned[call.name] = @ \cup {call.staged.id}]]
        /\ UNCHANGED <<intentVars, publishVars, runtimeVars, lookup, database, cache,
                       outbox, logger>>

NextEnsure ==
    \/ \E name \in SkillNames, help_text \in HelpTexts : EnsureExistsStarts(name, help_text)
    \/ EnsureExistsSelects
    \/ EnsureExistsCommits
    \/ EnsureExistsReturns
    \/ DatabaseGoesDown
    \/ DatabaseComesUp
    \/ Tick

(* an empty skills table *)
InitEnsure ==
    /\ supported_intents = SkillClass.supported_intents
    /\ confidence_modifiers = SkillClass.confidence_modifiers
    /\ max_recent_actions = DefaultMaxRecentActions
    /\ recent_actions = <<>>
    /\ now = 0
    /\ processing = {}
    /\ lastDecision = NoDecision
    /\ lastTrigger = NeverRecorded
    /\ calls = [c \in Calls |-> IdleCall]
    /\ metrics = PerformanceMetrics
    /\ broker = "up"
    /\ supervisor = ServingSupervisor
    /\ task_group = [NoTaskGroup EXCEPT !.entered = TRUE, !.exiting = TRUE]
    /\ listener = Listening
    /\ inbox = EmptyInbox
    /\ tasks = NoTasks
    /\ _active_tasks = {}
    /\ _task_counter = 0
    /\ lookup = NoLookup
    /\ database = EmptyDatabase
    /\ registry_calls = [c \in {"ensure_exists"} |-> IdleEnsureCall]
    /\ cache = NoCache
    /\ outbox = <<>>
    /\ logger = NoLogger

SpecEnsure == InitEnsure /\ [][NextEnsure]_vars

----------------------------------------------------------------------------
(* BaseSkill.skill_preparations (base_skill.py) *)

(* config_obj.skill_id *)
skill_id == "switch-skill"

(* what a skill class puts in supported_device_types: nothing, or a type *)
SupportedDeviceTypes == {{}, {"light"}}

(* skill_preparations of the skill instance: pc is the statement it is at,
   failed_in the statement that raised, global_devices what it loaded *)
Preparations(supported_device_types) ==
    [op |-> "skill_preparations", supported_device_types |-> supported_device_types,
     pc |-> "ensure_skill_registered", failed_in |-> "none", raised |-> "None",
     _global_skill_id |-> 0, global_devices |-> "None"]

(* Skill.ensure_exists of database/models.py: the row is added when the
   name is not stored *)
RegisterSkill(skills, name, t) ==
    IF get_by_name(skills, name) # NoSkillRow THEN skills
    ELSE Append(skills, [id |-> Len(skills) + 1, name |-> name, help_text |-> {},
                         created_at |-> t, updated_at |-> t])

(* an ensure_ method catches the exception of the database, logs it and
   raises RuntimeError, which leaves skill_preparations and the body of the
   task group: the group adds it to its errors and raises *)
PreparationsRaise ==
    LET call == registry_calls["skill_preparations"]
        errors == task_group.errors \cup {[source |-> supervisor.pc, kind |-> "RuntimeError"]}
    IN  /\ registry_calls' =
              [registry_calls EXCEPT !["skill_preparations"] =
                  [call EXCEPT !.pc = "raised", !.failed_in = call.pc,
                               !.raised = "RuntimeError"]]
        /\ task_group' = [task_group EXCEPT !.exiting = TRUE, !.aborting = TRUE,
                                            !.errors = errors]
        /\ supervisor' = AfterScope(supervisor, RaisedByTaskGroup(errors))
        /\ UNCHANGED <<intentVars, publishVars, broker, listener, inbox, tasks,
                       _active_tasks, _task_counter, lookup, database, cache, outbox,
                       logger>>

(* await self.ensure_skill_registered() *)
EnsureSkillRegistered ==
    LET call == registry_calls["skill_preparations"]
    IN  /\ supervisor.pc = "preparing"
        /\ call.pc = "ensure_skill_registered"
        /\ IF database.up
           THEN /\ database' = [database EXCEPT !.skills = RegisterSkill(@, skill_id, now)]
                /\ registry_calls' =
                      [registry_calls EXCEPT !["skill_preparations"] =
                          [call EXCEPT !.pc = "ensure_device_types_registered",
                                       !._global_skill_id =
                                           get_by_name(database'.skills, skill_id).id]]
                /\ UNCHANGED <<intentVars, publishVars, runtimeVars, lookup, cache, outbox,
                               logger>>
           ELSE PreparationsRaise

(* await self.ensure_device_types_registered(): it returns at once when the
   skill supports no device type *)
EnsureDeviceTypesRegistered ==
    LET call == registry_calls["skill_preparations"]
    IN  /\ supervisor.pc = "preparing"
        /\ call.pc = "ensure_device_types_registered"
        /\ IF call.supported_device_types = {} \/ database.up
           THEN /\ database' = [database EXCEPT
                                   !.device_types = @ \cup call.supported_device_types]
                /\ registry_calls' = [registry_calls EXCEPT
                                         !["skill_preparations"].pc = "get_skill_devices"]
                /\ UNCHANGED <<intentVars, publishVars, runtimeVars, lookup, cache, outbox,
                               logger>>
           ELSE PreparationsRaise

(* self.global_devices = await self.get_skill_devices() *)
LoadGlobalDevices ==
    LET call == registry_calls["skill_preparations"]
        loaded == get_skill_devices(database)
    IN  /\ supervisor.pc = "preparing"
        /\ call.pc = "get_skill_devices"
        /\ IF loaded # "raised"
           THEN /\ registry_calls' =
                      [registry_calls EXCEPT !["skill_preparations"] =
                          [call EXCEPT !.pc = "loaded", !.global_devices = loaded]]
                /\ UNCHANGED <<intentVars, publishVars, runtimeVars, lookup, database,
                               cache, outbox, logger>>
           ELSE PreparationsRaise

(* skill_preparations returns once the device cache is loaded *)
PreparationsReturn ==
    /\ registry_calls["skill_preparations"].pc = "loaded"
    /\ PrepareDone

NextPreparations ==
    \/ BrokerGoesDown
    \/ BrokerComesUp
    \/ DatabaseGoesDown
    \/ DatabaseComesUp
    \/ ConnectFails
    \/ SleepEnds
    \/ ConnectSucceeds
    \/ SubscribeDone
    \/ SubscribeRaises
    \/ EnsureSkillRegistered
    \/ EnsureDeviceTypesRegistered
    \/ LoadGlobalDevices
    \/ PreparationsReturn
    \/ Tick

(* mqtt_connection_handler is called for a skill class with or without
   device types, the database answering or not *)
InitPreparations ==
    /\ supported_intents = <<>>
    /\ confidence_modifiers = [i \in IntentType |-> <<>>]
    /\ max_recent_actions = DefaultMaxRecentActions
    /\ recent_actions = <<>>
    /\ now = 0
    /\ processing = {}
    /\ lastDecision = NoDecision
    /\ lastTrigger = NeverRecorded
    /\ calls = [c \in Calls |-> IdleCall]
    /\ metrics = PerformanceMetrics
    /\ broker \in {"up", "down"}
    /\ supervisor \in {Supervisor(retry_interval) : retry_interval \in RetryIntervals}
    /\ task_group = NoTaskGroup
    /\ listener = NoListener
    /\ inbox = EmptyInbox
    /\ tasks = NoTasks
    /\ _active_tasks = {}
    /\ _task_counter = 0
    /\ lookup = NoLookup
    /\ database \in {[EmptyDatabase EXCEPT !.up = up] : up \in BOOLEAN}
    /\ registry_calls \in {[c \in {"skill_preparations"} |-> Preparations(types)] :
                              types \in SupportedDeviceTypes}
    /\ cache = NoCache
    /\ outbox = <<>>
    /\ logger = NoLogger

SpecPreparations == InitPreparations /\ [][NextPreparations]_vars

----------------------------------------------------------------------------
(* SkillLogger (skill_logger.py) *)

LoggerThreads == {"thread_1", "thread_2"}

LoggerNames == {"root.configured", "test.logger1", "test.logger2"}

(* config.console: None, or a console of the caller *)
Consoles == {{}, {"custom_console"}}

(* the statements where a thread waits for _cache_lock *)
LockSites == {"_get_cached_handler", "_get_cached_console", "_get_cached_formatter"}

(* a thread that is not in get_logger *)
IdleThread == [pc |-> "idle", name |-> "none", console |-> {}]

_get_console_cache_key(console) ==
    IF console # {} THEN "custom_console" ELSE "default_console"

(* get_logger(name, config=LoggerConfig(console=console)): a logger that
   has handlers is returned as it is, otherwise _get_cached_handler is
   called and the thread reaches its with cls._cache_lock *)
GetLogger(t, name, console) ==
    /\ logger.threads[t].pc \in {"idle", "returned"}
    /\ logger' = [logger EXCEPT !.threads[t] =
                     [pc |-> IF name \in logger.configured
                             THEN "returned" ELSE "_get_cached_handler",
                      name |-> name, console |-> console]]
    /\ UNCHANGED <<intentVars, publishVars, runtimeVars, lookup, database, registry_calls,
                   cache, outbox>>

(* what the thread does once the acquire it waits in has returned, up to the
   next acquire or to the return of get_logger; _cache_lock is a
   threading.Lock: the with statements of the nested calls acquire it again
   and release it on their way out *)
AfterAcquire(t) ==
    LET thread == logger.threads[t]
        handler_key == _get_console_cache_key(thread.console)
    IN  CASE thread.pc = "_get_cached_handler" ->
               IF handler_key \in logger.handlers
               THEN [logger EXCEPT !.configured = @ \cup {thread.name},
                                   !.threads[t].pc = "returned"]
               ELSE [logger EXCEPT !.lock = t,
                                   !.threads[t].pc = IF thread.console # {}
                                                     THEN "_get_cached_formatter"
                                                     ELSE "_get_cached_console"]
          [] thread.pc = "_get_cached_console" ->
               [logger EXCEPT !.consoles = @ \cup {handler_key},
                              !.lock = "free",
                              !.threads[t].pc = "_get_cached_formatter"]
          [] OTHER ->
               [logger EXCEPT !.formatters = @ \cup {"format_string"},
                              !.handlers = @ \cup {handler_key},
                              !.lock = "free",
                              !.threads[t].pc = "raised"]

(* cls._cache_lock.acquire() returns in thread t: the lock was free *)
Acquire(t) ==
    /\ logger.threads[t].pc \in LockSites
    /\ logger.lock = "free"
    /\ logger' = AfterAcquire(t)
    /\ UNCHANGED <<intentVars, publishVars, runtimeVars, lookup, database, registry_calls,
                   cache, outbox>>

NextLogger ==
    \/ \E t \in LoggerThreads, name \in LoggerNames, console \in Consoles :
          GetLogger(t, name, console)
    \/ \E t \in LoggerThreads : Acquire(t)

(* the caches are empty, as after clear_cache; some loggers may have been
   given handlers by other code *)
InitLogger ==
    /\ supported_intents = SkillClass.supported_intents
    /\ confidence_modifiers = SkillClass.confidence_modifiers
    /\ max_recent_actions = DefaultMaxRecentActions
    /\ recent_actions = <<>>
    /\ now = 0
    /\ processing = {}
    /\ lastDecision = NoDecision
    /\ lastTrigger = NeverRecorded
    /\ calls = [c \in Calls |-> IdleCall]
    /\ metrics = PerformanceMetrics
    /\ broker = "up"
    /\ supervisor = ServingSupervisor
    /\ task_group = [NoTaskGroup EXCEPT !.entered = TRUE, !.exiting = TRUE]
    /\ listener = Listening
    /\ inbox = EmptyInbox
    /\ tasks = NoTasks
    /\ _active_tasks = {}
    /\ _task_counter = 0
    /\ lookup = NoLookup
    /\ database = EmptyDatabase
    /\ registry_calls = NoRegistryCalls
    /\ cache = NoCache
    /\ outbox = <<>>
    /\ logger \in {[NoLogger EXCEPT !.configured = configured,
                                    !.threads = [t \in LoggerThreads |-> IdleThread]] :
                       configured \in {{}, {"root.configured"}}}

(* a thread that waits for a free lock gets it: the threads are scheduled
   and a released lock is handed to each waiting thread in turn *)
SpecLogger ==
    /\ InitLogger
    /\ [][NextLogger]_vars
    /\ \A t \in LoggerThreads : SF_vars(Acquire(t))

----------------------------------------------------------------------------
(* The device cache: _handle_device_update and get_skill_devices (base_skill.py) *)

(* a row of the table global_devices; name stands for the name and the
   pattern of the device *)
GlobalDevice(id, owner, name) == [id |-> id, skill_id |-> owner, name |-> name]

(* the rows the registry holds from the start: a device of this skill and a
   device of another skill *)
StoredDevices ==
    {GlobalDevice(1, skill_id, "lamp"), GlobalDevice(2, "other-skill", "heater")}

(* select(GlobalDevice).where(GlobalDevice.skill_id == ...): the rows of a skill *)
DevicesOf(rows, owner) == {row \in rows : row.skill_id = owner}

(* the notifications on the device update topic: the empty payload, and bytes
   that decode_message_payload could not decode *)
DeviceUpdates ==
    {[NoMessage EXCEPT !.topic = "device_update_topic", !.payload = payload] :
        payload \in {"empty", "undecodable"}}

(* self.global_devices of the skill, with the number of refreshes made *)
DeviceCache(devices) ==
    [op |-> "_handle_device_update", global_devices |-> devices, refreshes |-> 0,
     last |-> "None"]

(* a row of this skill is added to or removed from the registry, by a call of
   this skill or by somebody else *)
RegistryChanges ==
    /\ \E row \in {GlobalDevice(1, skill_id, "lamp"), GlobalDevice(3, skill_id, "fan")} :
          database' = [database EXCEPT !.devices = IF row \in @ THEN @ \ {row}
                                                    ELSE @ \cup {row}]
    /\ UNCHANGED <<intentVars, publishVars, runtimeVars, lookup, registry_calls, cache,
                   outbox, logger>>

(* variant: the cached devices are kept when the lookup failed *)
RefreshDevices_KeepsCache(t) ==
    LET loaded == get_skill_devices(database)
        cached == registry_calls["device_cache"]
    IN  /\ t \in DOMAIN tasks
        /\ tasks[t].coro = "_handle_device_update"
        /\ tasks[t].state = "created"
        /\ ~tasks[t].must_cancel
        /\ tasks' = [tasks EXCEPT ![t].state = "returned"]
        /\ registry_calls' =
              [registry_calls EXCEPT !["device_cache"] =
                  [cached EXCEPT
                     !.global_devices = CASE loaded = "list" ->
                                                DevicesOf(database.devices, skill_id)
                                          [] loaded = "empty" -> @
                                          [] OTHER -> @,
                     !.refreshes = @ + 1,
                     !.last = loaded]]
        /\ UNCHANGED <<intentVars, publishVars, broker, supervisor, task_group, listener,
                       inbox, _active_tasks, _task_counter, lookup, database, cache,
                       outbox, logger>>

(* _handle_device_update: global_devices is assigned what get_skill_devices
   returns, the rows of this skill or the empty list; an exception of
   get_skill_devices would be logged and the cache kept; the task returns *)
RefreshDevices(t) ==
    LET loaded == get_skill_devices(database)
        cached == registry_calls["device_cache"]
    IN  /\ t \in DOMAIN tasks
        /\ tasks[t].coro = "_handle_device_update"
        /\ tasks[t].state = "created"
        /\ ~tasks[t].must_cancel
        /\ tasks' = [tasks EXCEPT ![t].state = "returned"]
        /\ registry_calls' =
              [registry_calls EXCEPT !["device_cache"] =
                  [cached EXCEPT
                     !.global_devices = CASE loaded = "list" ->
                                                DevicesOf(database.devices, skill_id)
                                          [] loaded = "empty" -> {}
                                          [] OTHER -> @,
                     !.refreshes = @ + 1,
                     !.last = loaded]]
        /\ UNCHANGED <<intentVars, publishVars, broker, supervisor, task_group, listener,
                       inbox, _active_tasks, _task_counter, lookup, database, cache,
                       outbox, logger>>

NextRefresh ==
    \/ \E message \in DeviceUpdates \cup {IntentRequest(MEDIA_PLAY, 80)} : Arrive(message)
    \/ Dispatch
    \/ \E t \in 0..(MaxTasks - 1) : RefreshDevices(t)
    \/ \E t \in 0..(MaxTasks - 1) : HandleMessageStarts(t)
    \/ \E t \in 0..(MaxTasks - 1) : TaskDone(t)
    \/ RegistryChanges
    \/ DatabaseGoesDown
    \/ DatabaseComesUp

(* a serving skill whose cache was loaded by skill_preparations *)
InitRefresh ==
    /\ supported_intents = SkillClass.supported_intents
    /\ confidence_modifiers = SkillClass.confidence_modifiers
    /\ max_recent_actions = DefaultMaxRecentActions
    /\ recent_actions = <<>>
    /\ now = 0
    /\ processing = {}
    /\ lastDecision = NoDecision
    /\ lastTrigger = NeverRecorded
    /\ calls = [c \in Calls |-> IdleCall]
    /\ metrics = PerformanceMetrics
    /\ broker = "up"
    /\ supervisor = ServingSupervisor
    /\ task_group = [NoTaskGroup EXCEPT !.entered = TRUE, !.exiting = TRUE]
    /\ listener = Listening
    /\ inbox = EmptyInbox
    /\ tasks = NoTasks
    /\ _active_tasks = {}
    /\ _task_counter = 0
    /\ lookup = NoLookup
    /\ database = [EmptyDatabase EXCEPT !.devices = StoredDevices]
    /\ registry_calls = [c \in {"device_cache"} |->
                            DeviceCache(DevicesOf(StoredDevices, skill_id))]
    /\ cache = NoCache
    /\ outbox = <<>>
    /\ logger = NoLogger

SpecRefresh == InitRefresh /\ [][NextRefresh]_vars

----------------------------------------------------------------------------
(* The rows of the device registry: BaseSkill.register_device and the
   update_device and delete_device of DeviceRegistryMixin *)

DeviceCallIds == {"device_call_1", "device_call_2"}

(* the names register_device is called with: one is stored, one is new *)
DeviceNames == {"lamp", "fan"}

(* the ids update_device and delete_device are called with: the device of
   this skill, the device of the other skill, an id that is not stored *)
DeviceIds == {1, 2, 9}

DeviceOps == {"BaseSkill.register_device", "update_device", "delete_device"}

(* a call that was not made yet: found is the id of the row its select
   returned, inserted the id of the row it added, both 0 for none *)
IdleDeviceCall ==
    [op |-> "none", name |-> "none", device_id |-> 0, pc |-> "idle", found |-> 0,
     inserted |-> 0, committed |-> 0, result |-> "None"]

(* _find_duplicate_device: the rows of this skill with the name and pattern *)
_find_duplicate_device(rows, owner, name) ==
    {row \in rows : row.skill_id = owner /\ row.name = name}

(* variant: the select does not ask for the skill *)
select_device_AnySkill(rows, device_id, owner) ==
    {row \in rows : row.id = device_id}

(* the select of update_device and delete_device: the row with the id that
   belongs to the skill *)
select_device(rows, device_id, owner) ==
    {row \in rows : row.id = device_id /\ row.skill_id = owner}

(* result.first() and scalar_one_or_none(): the id of a row found, 0 for None *)
FirstId(rows) == IF rows = {} THEN 0 ELSE (CHOOSE row \in rows : TRUE).id

(* the call is made: it opens a session *)
DeviceCallStarts(c, op, name, device_id) ==
    /\ registry_calls[c].pc = "idle"
    /\ registry_calls' =
          [registry_calls EXCEPT ![c] =
              [IdleDeviceCall EXCEPT
                  !.op = op, !.pc = "selecting",
                  !.name = IF op = "BaseSkill.register_device" THEN name ELSE "none",
                  !.device_id = IF op = "BaseSkill.register_device" THEN 0 ELSE device_id]]
    /\ UNCHANGED <<intentVars, publishVars, runtimeVars, lookup, database, cache, outbox,
                   logger>>

(* the select of the call is awaited: register_device returns the id of a
   duplicate, update_device and delete_device return None and False when the
   skill has no device with the id *)
FindDevice(c) ==
    LET call == registry_calls[c]
        found == IF call.op = "BaseSkill.register_device"
                 THEN FirstId(_find_duplicate_device(database.devices, skill_id, call.name))
                 ELSE FirstId(select_device(database.devices, call.device_id, skill_id))
    IN  /\ call.pc = "selecting"
        /\ registry_calls' =
              [registry_calls EXCEPT ![c] =
                  IF ~database.up THEN RegistryCallFails(call)
                  ELSE IF call.op = "BaseSkill.register_device"
                  THEN IF found # 0
                       THEN [call EXCEPT !.found = found, !.pc = "returned", !.result = "id"]
                       ELSE [call EXCEPT !.pc = "committing"]
                  ELSE IF found # 0
                       THEN [call EXCEPT !.found = found, !.pc = "committing"]
                       ELSE [call EXCEPT !.pc = "returned",
                                         !.result = IF call.op = "delete_device"
                                                    THEN "False" ELSE "None"]]
        /\ UNCHANGED <<intentVars, publishVars, runtimeVars, lookup, database, cache,
                       outbox, logger>>

(* session.commit(): the new row is inserted under a fresh id, the row
   found is changed or deleted; it raises when the database is down or the
   row found is gone *)
CommitRow(c) ==
    LET call == registry_calls[c]
        id == database.version + 1
        stale == call.found # 0 /\ \A row \in database.devices : row.id # call.found
    IN  /\ call.pc = "committing"
        /\ IF ~database.up \/ stale
           THEN /\ registry_calls' = [registry_calls EXCEPT ![c] = RegistryCallFails(call)]
                /\ UNCHANGED database
           ELSE /\ database' =
                      [database EXCEPT
                         !.version = @ + 1,
                         !.devices =
                            CASE call.op = "BaseSkill.register_device" ->
                                    @ \cup {GlobalDevice(id, skill_id, call.name)}
                              [] call.op = "delete_device" ->
                                    {row \in @ : row.id # call.found}
                              [] OTHER -> @]
                /\ registry_calls' =
                      [registry_calls EXCEPT
                         ![c].committed = 1,
                         ![c].inserted = IF call.op = "BaseSkill.register_device"
                                         THEN id ELSE 0,
                         ![c].pc = "publishing"]
        /\ UNCHANGED <<intentVars, publishVars, runtimeVars, lookup, cache, outbox, logger>>

(* the notification is published and the call returns the id, the device or
   True *)
NotifyDeviceUpdate(c) ==
    LET call == registry_calls[c]
    IN  /\ call.pc = "publishing"
        /\ outbox' = Append(outbox, DeviceUpdate(c, call.op, database.version, "sent"))
        /\ registry_calls' =
              [registry_calls EXCEPT ![c] =
                  CASE call.op = "BaseSkill.register_device" ->
                          [call EXCEPT !.pc = "returned", !.result = "id"]
                    [] call.op = "delete_device" ->
                          [call EXCEPT !.pc = "returned", !.result = "True"]
                    [] OTHER ->
                          [call EXCEPT !.pc = "returned", !.result = "device"]]
        /\ UNCHANGED <<intentVars, publishVars, runtimeVars, lookup, database, cache,
                       logger>>

NextDevices ==
    \/ \E c \in DeviceCallIds, op \in DeviceOps, name \in DeviceNames,
          device_id \in DeviceIds : DeviceCallStarts(c, op, name, device_id)
    \/ \E c \in DeviceCallIds : FindDevice(c)
    \/ \E c \in DeviceCallIds : CommitRow(c)
    \/ \E c \in DeviceCallIds : NotifyDeviceUpdate(c)
    \/ DatabaseGoesDown
    \/ DatabaseComesUp

(* a serving skill; the registry holds a device of it and one of another skill *)
InitDevices ==
    /\ supported_intents = SkillClass.supported_intents
    /\ confidence_modifiers = SkillClass.confidence_modifiers
    /\ max_recent_actions = DefaultMaxRecentActions
    /\ recent_actions = <<>>
    /\ now = 0
    /\ processing = {}
    /\ lastDecision = NoDecision
    /\ lastTrigger = NeverRecorded
    /\ calls = [c \in Calls |-> IdleCall]
    /\ metrics = PerformanceMetrics
    /\ broker = "up"
    /\ supervisor = ServingSupervisor
    /\ task_group = [NoTaskGroup EXCEPT !.entered = TRUE, !.exiting = TRUE]
    /\ listener = Listening
    /\ inbox = EmptyInbox
    /\ tasks = NoTasks
    /\ _active_tasks = {}
    /\ _task_counter = 0
    /\ lookup = NoLookup
    /\ database = [EmptyDatabase EXCEPT !.devices = StoredDevices, !.version = 2]
    /\ registry_calls = [c \in DeviceCallIds |-> IdleDeviceCall]
    /\ cache = NoCache
    /\ outbox = <<>>
    /\ logger = NoLogger

SpecDevices == InitDevices /\ [][NextDevices]_vars

----------------------------------------------------------------------------
(* DeviceType.ensure_exists called by skills that start at the same time
   (database/models.py; Skill.ensure_exists has the same statements on the
   table skills). Each caller has its own session. *)

DeviceTypeNames == {"light", "switch"}

(* uuid4 of the row the caller creates: no two rows created get the same *)
uuid4(caller, name) == <<caller, name>>

(* no id: get_by_name found no row *)
NoId == <<>>

IdleTypeCall ==
    [op |-> "DeviceType.ensure_exists", name |-> "none", pc |-> "idle",
     device_type |-> NoId, result |-> NoId, raised |-> "None", made |-> 0]

(* select(cls).where(cls.name == name), result.first(): the id of a row
   with the name, or none *)
DeviceType_get_by_name(rows, name) ==
    IF \E row \in rows : row.name = name
    THEN (CHOOSE row \in rows : row.name = name).id
    ELSE NoId

(* name is declared unique=True: the insert of a second row with a stored
   name violates the constraint *)
ViolatesUnique(rows, name) == \E row \in rows : row.name = name

(* ensure_device_types_registered of the skill calls ensure_exists *)
EnsureTypeStarts(c, name) ==
    /\ registry_calls[c].pc \in {"idle", "returned", "raised"}
    /\ registry_calls[c].made < MaxEnsureCalls
    /\ registry_calls' =
          [registry_calls EXCEPT ![c] =
              [IdleTypeCall EXCEPT !.name = name, !.pc = "get_by_name",
                                   !.made = registry_calls[c].made + 1]]
    /\ UNCHANGED <<intentVars, publishVars, runtimeVars, lookup, database, cache,
                   outbox, logger>>

(* device_type = await cls.get_by_name(session, name): the row found is
   returned; when none is found a row is created and added to the session *)
EnsureTypeSelects(c) ==
    LET call == registry_calls[c]
        found == DeviceType_get_by_name(database.device_types, call.name)
    IN  /\ call.pc = "get_by_name"
        /\ registry_calls' =
              [registry_calls EXCEPT ![c] =
                  IF ~database.up
                  THEN [call EXCEPT !.pc = "raised", !.raised = "OperationalError"]
                  ELSE IF found # NoId
                  THEN [call EXCEPT !.pc = "returned", !.device_type = found,
                                    !.result = found]
                  ELSE [call EXCEPT !.pc = "committing",
                                    !.device_type = uuid4(c, call.name)]]
        /\ UNCHANGED <<intentVars, publishVars, runtimeVars, lookup, database, cache,
                       outbox, logger>>

(* await session.commit() *)
EnsureTypeCommits(c) ==
    LET call == registry_calls[c]
    IN  /\ call.pc = "committing"
        /\ IF ~database.up
           THEN /\ registry_calls' = [registry_calls EXCEPT
                                         ![c].pc = "raised",
                                         ![c].raised = "OperationalError"]
                /\ UNCHANGED database
           ELSE IF ViolatesUnique(database.device_types, call.name)
           THEN /\ registry_calls' = [registry_calls EXCEPT
                                         ![c].pc = "raised",
                                         ![c].raised = "IntegrityError"]
                /\ UNCHANGED database
           ELSE /\ database' =
                      [database EXCEPT
                          !.device_types = @ \cup {[id |-> call.device_type,
                                                    name |-> call.name]},
                          !.version = @ + 1]
                /\ registry_calls' = [registry_calls EXCEPT ![c].pc = "refreshing"]
        /\ UNCHANGED <<intentVars, publishVars, runtimeVars, lookup, cache, outbox, logger>>

(* await session.refresh(device_type); return device_type *)
EnsureTypeReturns(c) ==
    LET call == registry_calls[c]
    IN  /\ call.pc = "refreshing"
        /\ registry_calls' =
              [registry_calls EXCEPT ![c] =
                  IF ~database.up
                  THEN [call EXCEPT !.pc = "raised", !.raised = "OperationalError"]
                  ELSE [call EXCEPT !.pc = "returned", !.result = call.device_type]]
        /\ UNCHANGED <<intentVars, publishVars, runtimeVars, lookup, database, cache,
                       outbox, logger>>

NextStartup ==
    \/ \E c \in SkillNames, name \in DeviceTypeNames : EnsureTypeStarts(c, name)
    \/ \E c \in SkillNames : EnsureTypeSelects(c)
    \/ \E c \in SkillNames : EnsureTypeCommits(c)
    \/ \E c \in SkillNames : EnsureTypeReturns(c)
    \/ DatabaseGoesDown
    \/ DatabaseComesUp

(* two skills, an empty table device_types *)
InitStartup ==
    /\ supported_intents = SkillClass.supported_intents
    /\ confidence_modifiers = SkillClass.confidence_modifiers
    /\ max_recent_actions = DefaultMaxRecentActions
    /\ recent_actions = <<>>
    /\ now = 0
    /\ processing = {}
    /\ lastDecision = NoDecision
    /\ lastTrigger = NeverRecorded
    /\ calls = [c \in Calls |-> IdleCall]
    /\ metrics = PerformanceMetrics
    /\ broker = "up"
    /\ supervisor = ServingSupervisor
    /\ task_group = [NoTaskGroup EXCEPT !.entered = TRUE, !.exiting = TRUE]
    /\ listener = Listening
    /\ inbox = EmptyInbox
    /\ tasks = NoTasks
    /\ _active_tasks = {}
    /\ _task_counter = 0
    /\ lookup = NoLookup
    /\ database = EmptyDatabase
    /\ registry_calls = [c \in SkillNames |-> IdleTypeCall]
    /\ cache = NoCache
    /\ outbox = <<>>
    /\ logger = NoLogger

SpecStartup == InitStartup /\ [][NextStartup]_vars

----------------------------------------------------------------------------
(* The timers of MetricsCollector (metrics.py) and the two methods of
   BaseSkill that start them.  In this specification now counts the ticks of
   time.perf_counter(), and the decision of handle_client_request_message
   is an input: what it decides is the subject of the skill specification. *)

(* time.perf_counter() is finer than int(time.time() * 1000): the ticks of
   the first in one millisecond of the second *)
TicksPerMs == 2

TimedOperations == {"mqtt_publish", "message_processing"}

(* what handle_client_request_message does with the payload *)
MessageOutcomes == {"invalid", "rejected", "accepted"}

(* the max_retries the publishes are made with *)
TimedRetries == {0, 1}

NoTimerId == <<>>

(* f"{operation}_{int(time.time() * 1000)}_{id(self)}" at tick t: id(self)
   is the collector, the same for every timer of a skill *)
timer_id(operation, t) == <<operation, t \div TicksPerMs, "id(self)">>

(* MetricsCollector of a skill: the counters, the timers that run, and the
   durations recorded *)
TimedMetrics ==
    [mqtt_publishes |-> 0, mqtt_publish_failures |-> 0, error_count |-> 0,
     messages_processed |-> 0, messages_failed |-> 0,
     tasks_created |-> 0, tasks_completed |-> 0, tasks_failed |-> 0,
     _active_timers |-> [id \in {} |-> 0],
     processing_times |-> <<>>, mqtt_response_times |-> <<>>]

(* a call of one of the two methods; started is the tick its start_timer
   ran at, duration what its end_timer returned ({} is None) at ended_at *)
IdleTimedCall ==
    [op |-> "none", pc |-> "idle", timer_id |-> NoTimerId, started |-> 0,
     max_retries |-> 0, attempt |-> 0, end_timer_calls |-> 0, duration |-> {},
     ended_at |-> 0, result |-> "None", raised |-> "None"]

(* MetricsCollector.start_timer: the dict entry of the id is set to the
   time of the call *)
start_timer(m, operation, t) ==
    LET id == timer_id(operation, t)
    IN  [m EXCEPT !._active_timers =
            [k \in DOMAIN @ \cup {id} |-> IF k = id THEN t ELSE @[k]]]

(* MetricsCollector.end_timer: None when the id is not in the dict; else
   the entry is popped and the duration appended to the list of its kind *)
end_timer(m, id, t) ==
    IF id \notin DOMAIN m._active_timers
    THEN [duration |-> {}, metrics |-> m]
    ELSE LET duration == t - m._active_timers[id]
         IN  [duration |-> {duration},
              metrics |->
                 [m EXCEPT
                    !._active_timers = [k \in DOMAIN @ \ {id} |-> @[k]],
                    !.processing_times =
                        IF id[1] = "message_processing" THEN Append(@, duration) ELSE @,
                    !.mqtt_response_times =
                        IF id[1] = "mqtt_publish" THEN Append(@, duration) ELSE @]]

(* record_mqtt_event("publish", success, duration): the duration is
   appended when it is not None *)
RecordPublish(m, success, duration) ==
    LET counted == record_mqtt_event(m, success)
    IN  IF duration = {} THEN counted
        ELSE [counted EXCEPT !.mqtt_response_times =
                                 Append(@, CHOOSE d \in duration : TRUE)]

(* the call c ends with end_timer: what the call keeps of it *)
Ended(call, ended, t, result) ==
    [call EXCEPT !.pc = "returned", !.end_timer_calls = @ + 1,
                 !.duration = ended.duration, !.ended_at = t, !.result = result]

(* _send_response_with_retry starts its timer and awaits the first publish *)
TimedPublishStarts(c, retries) ==
    /\ calls[c].pc = "idle"
    /\ metrics' = start_timer(metrics, "mqtt_publish", now)
    /\ calls' = [calls EXCEPT ![c] =
                    [IdleTimedCall EXCEPT !.op = "_send_response_with_retry",
                                          !.pc = "publishing",
                                          !.timer_id = timer_id("mqtt_publish", now),
                                          !.started = now, !.max_retries = retries]]
    /\ UNCHANGED <<intentVars, runtimeVars, serviceVars>>

(* the publish succeeded: end_timer, record_mqtt_event, return True *)
TimedPublishSucceeds(c) ==
    LET ended == end_timer(metrics, calls[c].timer_id, now)
    IN  /\ calls[c].pc = "publishing"
        /\ metrics' = RecordPublish(ended.metrics, TRUE, ended.duration)
        /\ calls' = [calls EXCEPT ![c] = Ended(@, ended, now, "True")]
        /\ UNCHANGED <<intentVars, runtimeVars, serviceVars>>

(* the publish failed: the call sleeps before the next attempt, or after
   the last attempt end_timer, record_mqtt_event, return False *)
TimedPublishFails(c) ==
    LET ended == end_timer(metrics, calls[c].timer_id, now)
    IN  /\ calls[c].pc = "publishing"
        /\ IF calls[c].attempt < calls[c].max_retries
           THEN /\ calls' = [calls EXCEPT ![c].pc = "sleeping"]
                /\ UNCHANGED metrics
           ELSE /\ metrics' = RecordPublish(ended.metrics, FALSE, ended.duration)
                /\ calls' = [calls EXCEPT ![c] = Ended(@, ended, now, "False")]
        /\ UNCHANGED <<intentVars, runtimeVars, serviceVars>>

(* asyncio.sleep(delay) is over: the next attempt *)
TimedPublishWakes(c) ==
    /\ calls[c].pc = "sleeping"
    /\ calls' = [calls EXCEPT ![c].pc = "publishing", ![c].attempt = @ + 1]
    /\ UNCHANGED <<metrics, intentVars, runtimeVars, serviceVars>>

(* the task of the call is cancelled while it awaits the publish or the
   sleep: the except clause logs and raises again *)
TimedPublishCancelled(c) ==
    /\ calls[c].pc \in {"publishing", "sleeping"}
    /\ calls' = [calls EXCEPT ![c].pc = "raised", ![c].raised = "CancelledError"]
    /\ UNCHANGED <<metrics, intentVars, runtimeVars, serviceVars>>

(* handle_client_request_message starts its timer; an invalid payload and a
   rejected intent end the call at once through the finally clause, an
   accepted intent awaits process_request *)
TimedMessageStarts(c, outcome) ==
    LET id == timer_id("message_processing", now)
        started == start_timer(metrics, "message_processing", now)
        call == [IdleTimedCall EXCEPT !.op = "handle_client_request_message",
                                      !.pc = "processing", !.timer_id = id,
                                      !.started = now]
        counted == IF outcome = "invalid" THEN MessageFailed(started)
                   ELSE record_message_processed(started, TRUE)
        ended == end_timer(counted, id, now)
    IN  /\ calls[c].pc = "idle"
        /\ IF outcome = "accepted"
           THEN /\ metrics' = started
                /\ calls' = [calls EXCEPT ![c] = call]
           ELSE /\ metrics' = ended.metrics
                /\ calls' = [calls EXCEPT ![c] = Ended(call, ended, now, "None")]
        /\ UNCHANGED <<intentVars, runtimeVars, serviceVars>>

(* process_request returned or raised an Exception: the message is counted
   and the finally clause ends the timer *)
TimedMessageEnds(c, success) ==
    LET counted == IF success THEN record_message_processed(metrics, TRUE)
                   ELSE MessageFailed(metrics)
        ended == end_timer(counted, calls[c].timer_id, now)
    IN  /\ calls[c].pc = "processing"
        /\ metrics' = ended.metrics
        /\ calls' = [calls EXCEPT ![c] = Ended(@, ended, now, "None")]
        /\ UNCHANGED <<intentVars, runtimeVars, serviceVars>>

(* the task is cancelled while process_request is awaited: CancelledError
   passes the except clauses and the finally clause ends the timer *)
TimedMessageCancelled(c) ==
    LET ended == end_timer(metrics, calls[c].timer_id, now)
    IN  /\ calls[c].pc = "processing"
        /\ metrics' = ended.metrics
        /\ calls' = [calls EXCEPT ![c] =
                        [Ended(@, ended, now, "None") EXCEPT
                            !.pc = "raised", !.raised = "CancelledError"]]
        /\ UNCHANGED <<intentVars, runtimeVars, serviceVars>>

(* a tick of time.perf_counter() passes *)
TimerTick ==
    /\ now < MaxTicks
    /\ now' = now + 1
    /\ UNCHANGED <<supported_intents, confidence_modifiers, max_recent_actions,
                   recent_actions, processing, lastDecision, lastTrigger, publishVars,
                   runtimeVars, serviceVars>>

NextTimers ==
    \/ \E c \in Calls, retries \in TimedRetries : TimedPublishStarts(c, retries)
    \/ \E c \in Calls : TimedPublishSucceeds(c)
    \/ \E c \in Calls : TimedPublishFails(c)
    \/ \E c \in Calls : TimedPublishWakes(c)
    \/ \E c \in Calls : TimedPublishCancelled(c)
    \/ \E c \in Calls, outcome \in MessageOutcomes : TimedMessageStarts(c, outcome)
    \/ \E c \in Calls, success \in BOOLEAN : TimedMessageEnds(c, success)
    \/ \E c \in Calls : TimedMessageCancelled(c)
    \/ TimerTick

(* a collector without timers, no call made *)
InitTimers ==
    /\ supported_intents = SkillClass.supported_intents
    /\ confidence_modifiers = SkillClass.confidence_modifiers
    /\ max_recent_actions = DefaultMaxRecentActions
    /\ recent_actions = <<>>
    /\ now = 0
    /\ processing = {}
    /\ lastDecision = NoDecision
    /\ lastTrigger = NeverRecorded
    /\ calls = [c \in Calls |-> IdleTimedCall]
    /\ metrics = TimedMetrics
    /\ broker = "up"
    /\ supervisor = ServingSupervisor
    /\ task_group = [NoTaskGroup EXCEPT !.entered = TRUE, !.exiting = TRUE]
    /\ listener = Listening
    /\ inbox = EmptyInbox
    /\ tasks = NoTasks
    /\ _active_tasks = {}
    /\ _task_counter = 0
    /\ lookup = NoLookup
    /\ database = EmptyDatabase
    /\ registry_calls = NoRegistryCalls
    /\ cache = NoCache
    /\ outbox = <<>>
    /\ logger = NoLogger

SpecTimers == InitTimers /\ [][NextTimers]_vars

----------------------------------------------------------------------------
(* Claims about the confidence decision engine *)

(* the step is a decision: handle_client_request_message decided the request
   that lastDecision records afterwards *)
DecisionStep ==
    /\ lastDecision'.intent_type \in IntentType
    /\ HandleRequest(lastDecision'.intent_type, lastDecision'.confidence)

(* C1: a request whose intent type is not a key of supported_intents is
   rejected with effective threshold 0, whatever its confidence and whatever
   the modifiers and the recorded context are. *)
C1_UnsupportedRejectedWithZero ==
    [][(DecisionStep /\ lastDecision'.intent_type \notin DOMAIN supported_intents)
          => /\ lastDecision'.should_handle = FALSE
             /\ lastDecision'.effective_threshold = 0
             /\ processing' = processing]_vars

C1_Witness ==
    /\ lastDecision.intent_type = DEVICE_ON
    /\ DEVICE_ON \notin DOMAIN supported_intents
    /\ lastDecision.confidence = 80
    /\ lastDecision.should_handle = FALSE
    /\ recent_actions # <<>>
    /\ confidence_modifiers[DEVICE_OFF] # <<>>

(* no modifier is applicable to intent i: none is registered for it, or the
   context holds no action of any registered modifier's trigger intent *)
NoApplicableModifier(i) ==
    \/ confidence_modifiers[i] = <<>>
    \/ \A k \in DOMAIN confidence_modifiers[i] :
          \A j \in DOMAIN recent_actions :
             recent_actions[j].action # confidence_modifiers[i][k].trigger_intent

(* C2: with no applicable modifier, a request of a supported intent with
   threshold t and confidence c is accepted iff c >= t, and the effective
   threshold returned is t. *)
C2_FlatThreshold ==
    [][LET i == lastDecision'.intent_type
           c == lastDecision'.confidence
       IN  (DecisionStep /\ i \in DOMAIN supported_intents /\ NoApplicableModifier(i))
           => /\ lastDecision'.should_handle = (c >= supported_intents[i])
              /\ lastDecision'.effective_threshold = supported_intents[i]]_vars

C2_Witness ==
    /\ now = 0
    /\ recent_actions = <<>>
    /\ processing = {DEVICE_OFF}
    /\ confidence_modifiers[DEVICE_OFF] # <<>>
    /\ lastDecision.intent_type = DEVICE_OFF
    /\ lastDecision.confidence = supported_intents[DEVICE_OFF]
    /\ lastDecision.should_handle

(* the reduced thresholds of the modifiers registered for i whose trigger
   action find_recent_action finds now *)
FoundReductions(i) ==
    { confidence_modifiers[i][k].reduced_threshold :
        k \in { n \in DOMAIN confidence_modifiers[i] :
                  find_recent_action(recent_actions,
                                     confidence_modifiers[i][n].trigger_intent,
                                     confidence_modifiers[i][n].time_window_seconds,
                                     now) # None } }

Minimum(S) == CHOOSE x \in S : \A y \in S : x <= y

(* C3: for a request of a supported intent the effective threshold is the
   minimum of the intent's base threshold and the reduced thresholds of the
   registered modifiers whose trigger action is found; it never exceeds the
   base threshold. *)
C3_ModifiersOnlyRelax ==
    [][LET i == lastDecision'.intent_type
       IN  (DecisionStep /\ i \in DOMAIN supported_intents)
           => /\ lastDecision'.effective_threshold
                    = Minimum({supported_intents[i]} \cup FoundReductions(i))
              /\ lastDecision'.effective_threshold <= supported_intents[i]]_vars

(* two modifiers applied together, one of them above the base threshold *)
C3_Witness ==
    /\ lastDecision.intent_type = DEVICE_OFF
    /\ Len(lastDecision.lowered) = 2
    /\ \E k \in DOMAIN confidence_modifiers[DEVICE_OFF] :
          confidence_modifiers[DEVICE_OFF][k].reduced_threshold
              > supported_intents[DEVICE_OFF]
    /\ lastDecision.effective_threshold = 10

(* the configuration of C4: device.off has base threshold 0.8 and the single
   modifier (trigger device.on, reduced 0.3, window 300 s) *)
C4_Configuration ==
    /\ DEVICE_OFF \in DOMAIN supported_intents
    /\ supported_intents[DEVICE_OFF] = 80
    /\ confidence_modifiers[DEVICE_OFF]
          = << [trigger_intent |-> DEVICE_ON, reduced_threshold |-> 30,
                time_window_seconds |-> 300] >>

(* C4 as stated: once device.on has been recorded, a device.off request with
   confidence 0.3 is accepted until 300 s have elapsed since the recording,
   and from then on it is rejected with effective threshold 0.8. *)
C4_Original ==
    [][(C4_Configuration /\ HandleRequest(DEVICE_OFF, 30) /\ lastTrigger.at >= 0)
          => /\ (now - lastTrigger.at < 300) => lastDecision'.should_handle
             /\ (now - lastTrigger.at >= 300)
                   => /\ ~lastDecision'.should_handle
                      /\ lastDecision'.effective_threshold = 80]_vars

(* C4 amended: the request is accepted within the 300 s provided fewer than
   max_recent_actions actions were recorded after device.on; once 300 s have
   elapsed it is rejected with effective threshold 0.8. *)
C4_WindowedRelaxation ==
    [][(C4_Configuration /\ HandleRequest(DEVICE_OFF, 30) /\ lastTrigger.at >= 0)
          => /\ (now - lastTrigger.at < 300 /\ lastTrigger.since < max_recent_actions)
                   => /\ lastDecision'.should_handle
                      /\ lastDecision'.effective_threshold = 30
             /\ (now - lastTrigger.at >= 300)
                   => /\ ~lastDecision'.should_handle
                      /\ lastDecision'.effective_threshold = 80]_vars

(* the same request rejected again, exactly 300 s after device.on was recorded *)
C4_Witness ==
    /\ C4_Configuration
    /\ lastTrigger.at >= 0
    /\ now - lastTrigger.at = 300
    /\ lastTrigger.since < max_recent_actions
    /\ lastDecision.intent_type = DEVICE_OFF
    /\ lastDecision.confidence = 30
    /\ ~lastDecision.should_handle
    /\ lastDecision.effective_threshold = 80

----------------------------------------------------------------------------
(* Claims about the reliable publisher *)

(* C5: a call whose publish function fails its first k attempts and then
   succeeds returns True after exactly k+1 attempts when k <= max_retries and
   attempts nothing after the success; when every attempt fails it returns
   False after exactly max_retries+1 attempts. *)
C5_AttemptCount ==
    \A c \in Calls :
       /\ calls[c].result = "True" => calls[c].pc = "returned"
       /\ calls[c].pc = "returned" =>
             IF calls[c].script <= calls[c].max_retries
             THEN /\ calls[c].result = "True"
                  /\ calls[c].publishes = calls[c].script + 1
             ELSE /\ calls[c].result = "False"
                  /\ calls[c].publishes = calls[c].max_retries + 1

(* fails twice then succeeds with max_retries = 3, and an always-failing call *)
C5_Witness ==
    /\ calls["call_1"].pc = "returned"
    /\ calls["call_1"].max_retries = 3
    /\ calls["call_1"].script = 2
    /\ calls["call_1"].publishes = 3
    /\ calls["call_1"].result = "True"
    /\ calls["call_2"].pc = "returned"
    /\ calls["call_2"].max_retries = 3
    /\ calls["call_2"].publishes = 4
    /\ calls["call_2"].result = "False"

ExpectedDelays == <<1, 2, 4, 8, 10, 10, 10, 10>>

(* C6: the sleep after failed attempt i (0-based) lasts min(2^i, 10) seconds;
   there is one sleep per failed attempt but none after the last allowed
   attempt and none after a success; with max_retries = 3 and every attempt
   failing the sleeps are 1, 2 and 4 seconds. *)
C6_BackoffSchedule ==
    \A c \in Calls :
       LET slept == IF calls[c].pc = "returned" /\ calls[c].result = "False"
                    THEN calls[c].max_retries
                    ELSE calls[c].failed
       IN  /\ calls[c].sleeps = [i \in 1..slept |-> ExpectedDelays[i]]
           /\ (calls[c].pc = "returned" /\ calls[c].result = "False"
                  /\ calls[c].max_retries = 3)
                 => calls[c].sleeps = <<1, 2, 4>>

(* one call exhausted max_retries = 3, the other reached the 10 s cap *)
C6_Witness ==
    /\ calls["call_1"].pc = "returned"
    /\ calls["call_1"].result = "False"
    /\ calls["call_1"].max_retries = 3
    /\ calls["call_1"].sleeps = <<1, 2, 4>>
    /\ calls["call_2"].pc = "sleeping"
    /\ calls["call_2"].sleeps = <<1, 2, 4, 8, 10>>

(* C7: a cancellation delivered while a call awaits a publish attempt or a
   backoff sleep is raised to the caller as CancelledError, the call makes no
   further attempt and returns nothing, and the step changes no other call. *)
C7_CancellationPropagates ==
    [][\A c \in Calls :
          /\ calls'[c].cancelled
                => /\ calls'[c].pc = "raised"
                   /\ calls'[c].raised = "CancelledError"
                   /\ calls'[c].result = "None"
          /\ calls[c].cancelled => calls'[c] = calls[c]
          /\ (~calls[c].cancelled /\ calls'[c].cancelled)
                => /\ calls'[c].publishes = calls[c].publishes
                   /\ \A d \in Calls \ {c} : calls'[d] = calls[d]
                   /\ metrics' = metrics]_vars

(* cancelled during a backoff sleep while the other call went on to succeed *)
C7_Witness ==
    \E c, d \in Calls :
       /\ c # d
       /\ calls[c].cancelled
       /\ calls[c].pc = "raised"
       /\ Len(calls[c].sleeps) = calls[c].publishes
       /\ calls[c].publishes >= 1
       /\ calls[d].pc = "returned"
       /\ calls[d].result = "True"
       /\ calls[d].publishes >= 2

CategoryOfFailure ==
    [k \in FailureKinds |->
        IF k = "TimeoutError" THEN "timeout"
        ELSE IF k = "MqttError" THEN "connection_lost" ELSE "publish_failed"]

(* C8: whatever the kinds of the per-attempt failures (timeout, MqttError,
   other exception), the call raises nothing to its caller; every kind is
   retried alike, and when all max_retries+1 attempts fail the call returns
   False and reports the category of the final failed attempt. *)
C8_FailuresNeverRaise ==
    \A c \in Calls :
       /\ ~calls[c].cancelled => calls[c].raised = "None"
       /\ (calls[c].pc \in {"publishing", "sleeping"} /\ calls[c].failed > 0)
             => calls[c].publishes
                   = calls[c].failed + (IF calls[c].pc = "publishing" THEN 1 ELSE 0)
       /\ (calls[c].pc = "returned" /\ calls[c].failed = calls[c].max_retries + 1)
             => /\ calls[c].result = "False"
                /\ calls[c].publishes = calls[c].max_retries + 1
                /\ calls[c].reported = CategoryOfFailure[calls[c].last_failure]

(* all three kinds of failure met in one call that ends on a timeout *)
C8_Witness ==
    \E c \in Calls :
       /\ calls[c].pc = "returned"
       /\ calls[c].result = "False"
       /\ calls[c].max_retries = 3
       /\ calls[c].failures_seen = FailureKinds
       /\ calls[c].last_failure = "TimeoutError"
       /\ calls[c].reported = "timeout"

(* C9 as stated: a finished call that made k publish attempts has recorded k
   attempt outcomes in the metrics. *)
C9_Original ==
    \A c \in Calls :
       calls[c].pc = "returned" => calls[c].recorded = calls[c].publishes

ReturnedWith(r) == {c \in Calls : calls[c].pc = "returned" /\ calls[c].result = r}

(* C9 amended: each call records one outcome when it returns, a success if
   it returns True and a failure if it returns False, however many attempts
   it made; a cancelled or unfinished call has recorded none. *)
C9_OneOutcomePerCall ==
    /\ \A c \in Calls :
          calls[c].recorded = IF calls[c].pc = "returned" THEN 1 ELSE 0
    /\ metrics.mqtt_publishes = Cardinality(ReturnedWith("True"))
    /\ metrics.mqtt_publish_failures = Cardinality(ReturnedWith("False"))
    /\ metrics.error_count = metrics.mqtt_publish_failures

(* one call succeeded on its third attempt, the other failed four attempts *)
C9_Witness ==
    /\ calls["call_1"].pc = "returned"
    /\ calls["call_1"].result = "True"
    /\ calls["call_1"].publishes = 3
    /\ calls["call_2"].pc = "returned"
    /\ calls["call_2"].result = "False"
    /\ calls["call_2"].publishes = 4
    /\ metrics.mqtt_publishes = 1
    /\ metrics.mqtt_publish_failures = 1

(* C10: of two send_response calls running concurrently, one whose publish
   fails once and then succeeds and one whose publish succeeds at once, both
   return True, the first after exactly 2 attempts and the second after
   exactly 1, in whatever order their steps interleave. *)
C10_PrivateRetryState ==
    \A c, d \in Calls :
       (/\ c # d
        /\ calls[c].max_retries = DefaultMaxRetries /\ calls[c].script = 1
        /\ calls[d].max_retries = DefaultMaxRetries /\ calls[d].script = 0
        /\ calls[c].pc \notin {"idle", "raised"} /\ calls[d].pc \notin {"idle", "raised"})
       => /\ calls[c].publishes <= 2
          /\ calls[d].publishes = 1
          /\ calls[c].result # "False" /\ calls[d].result # "False"
          /\ calls[c].pc = "returned" => calls[c].result = "True" /\ calls[c].publishes = 2
          /\ calls[d].pc = "returned" => calls[d].result = "True"

(* both calls returned, the second one finishing while the first slept *)
C10_Witness ==
    /\ calls["call_1"].max_retries = DefaultMaxRetries
    /\ calls["call_1"].script = 1
    /\ calls["call_1"].pc = "returned"
    /\ calls["call_1"].result = "True"
    /\ calls["call_1"].publishes = 2
    /\ calls["call_2"].max_retries = DefaultMaxRetries
    /\ calls["call_2"].script = 0
    /\ calls["call_2"].pc = "returned"
    /\ calls["call_2"].result = "True"
    /\ calls["call_2"].publishes = 1
    /\ metrics.mqtt_publishes = 2

----------------------------------------------------------------------------
(* Claims about the task lifecycle *)

(* the callbacks of every task add_task created have run *)
AllCallbacksRun == \A t \in DOMAIN tasks : tasks[t].callbacks_run

(* the tasks that ended with an exception *)
RaisedTasks == {t \in DOMAIN tasks : tasks[t].state = "raised"}

(* C11: once add_task has created N tasks of which k raised and N-k returned,
   and the completion callback of each has run, get_active_task_count() is 0
   and the metrics hold N created, k failed and N-k completed task events. *)
C11_SettledTasksAreCounted ==
    (AllCallbacksRun /\ \A t \in DOMAIN tasks : tasks[t].state \in {"returned", "raised"})
        => /\ get_active_task_count = 0
           /\ metrics.tasks_created = _task_counter
           /\ metrics.tasks_failed = Cardinality(RaisedTasks)
           /\ metrics.tasks_completed = _task_counter - Cardinality(RaisedTasks)

C11_Witness ==
    /\ _task_counter = MaxTasks
    /\ AllCallbacksRun
    /\ Cardinality(RaisedTasks) = 1
    /\ \A t \in DOMAIN tasks : tasks[t].state \in {"returned", "raised"}
    /\ metrics.tasks_failed = 1

(* no finished task is waiting for its completion callback *)
Quiescent == \A t \in DOMAIN tasks : tasks[t].state \in Done => tasks[t].callbacks_run

(* C12: a task that finishes, by returning, raising or being cancelled, is
   removed from the registry and gets one terminal event, so whenever no
   callback is pending tasks_created = tasks_completed + tasks_failed + the
   number of active tasks. *)
C12_EveryTaskIsAccountedFor ==
    Quiescent =>
        metrics.tasks_created
            = metrics.tasks_completed + metrics.tasks_failed + get_active_task_count

(* C13: the completion of a task that raised leaves the listener and every
   other task as they were: nothing is cancelled on its account. *)
C13_FailureStaysInItsTask ==
    [][\A t \in DOMAIN tasks :
          (/\ tasks[t].state = "raised"
           /\ ~tasks[t].callbacks_run
           /\ t \in DOMAIN tasks'
           /\ tasks'[t].callbacks_run)
              => /\ listener' = listener
                 /\ \A u \in DOMAIN tasks \ {t} : tasks'[u] = tasks[u]]_vars

----------------------------------------------------------------------------
(* Claims about the connection supervisor *)

(* the handler is between connections: attempting one or sleeping *)
Disconnected == supervisor.pc \in {"connecting", "sleeping"}

(* C14: an MqttError raised inside the task scope - by the listener, by the
   subscriptions or by the preparations - sends the handler back to the
   reconnect loop; the handler never ends on account of it. *)
C14_BusErrorReconnects ==
    supervisor.pc = "terminated"
        => \A error \in task_group.errors : error.kind # "MqttError"

(* C15: every failed connection attempt is followed by a sleep of exactly
   retry_interval, whatever the number of failures before it, and the sleep
   by the next attempt; the loop never leaves the handler; and once the
   broker accepts connections for good the handler gets connected. *)
C15_FixedIntervalForever ==
    /\ [][(supervisor.pc = "connecting" /\ supervisor'.pc = "sleeping")
             => /\ supervisor'.slept = supervisor.retry_interval
                /\ supervisor'.failed_attempts
                      = Min(supervisor.failed_attempts + 1, MaxAttempts)]_vars
    /\ [][Disconnected => supervisor'.pc # "terminated"]_vars
    /\ [][supervisor.pc = "sleeping" => supervisor'.pc \in {"sleeping", "connecting"}]_vars
    /\ []((Disconnected /\ [](broker = "up")) => <>(~Disconnected))

C15_Witness ==
    /\ supervisor.pc = "connecting"
    /\ supervisor.failed_attempts = MaxAttempts
    /\ supervisor.slept = supervisor.retry_interval
    /\ supervisor.retry_interval = 1

(* s is the beginning of t *)
IsPrefix(s, t) == Len(s) <= Len(t) /\ SubSeq(t, 1, Len(s)) = s

(* C16: on a connection the handler opens the task scope, constructs the
   skill, completes the subscriptions, completes the preparations and only
   then starts the listener, in this order; when the subscriptions or the
   preparations raise, the listener is never started. *)
C16_StartupOrder ==
    /\ IsPrefix(supervisor.steps, StartupSteps)
    /\ supervisor.pc = "subscribing" => supervisor.steps = SubSeq(StartupSteps, 1, 2)
    /\ supervisor.pc = "preparing" => supervisor.steps = SubSeq(StartupSteps, 1, 3)
    /\ listener.state # "none" => supervisor.steps = StartupSteps
    /\ (\E error \in task_group.errors : error.source \in {"subscribing", "preparing"})
          => listener.state = "none"

C16_Witness ==
    /\ supervisor.pc = "serving"
    /\ listener.state = "listening"
    /\ supervisor.steps = StartupSteps
    /\ inbox.queue # <<>>

----------------------------------------------------------------------------
(* Claims about the handling of inbound messages *)

(* the tasks handling a payload that validates, and one that does not *)
ValidTasks ==
    {t \in DOMAIN tasks : /\ tasks[t].coro = "_handle_message_async"
                          /\ tasks[t].message.payload = "valid"}

MalformedTasks ==
    {t \in DOMAIN tasks : /\ tasks[t].coro = "_handle_message_async"
                          /\ tasks[t].message.payload = "malformed"}

(* what the decision engine answers to the message of task t in this state *)
DecisionFor(t) ==
    _should_handle_intent(tasks[t].message.intent_type, tasks[t].message.confidence,
                          supported_intents, confidence_modifiers, recent_actions, now)

(* C17: a valid request the decision engine accepts has process_request
   called once, and one action named after its intent type is appended to
   the context only after process_request returned; a request the engine
   rejects, or whose process_request raises, appends nothing. *)
C17_RecordedOnlyAfterSuccess ==
    /\ [](\A t \in ValidTasks :
             /\ tasks[t].process_requests <= 1
             /\ tasks[t].actions_added <= 1
             /\ (tasks[t].process_requests = 0 \/ tasks[t].process_raised)
                   => tasks[t].actions_added = 0
             /\ (tasks[t].state = "returned" /\ tasks[t].process_requests = 1
                    /\ ~tasks[t].process_raised)
                   => tasks[t].actions_added = 1)
    /\ [][\A t \in ValidTasks :
             (/\ tasks[t].state = "created"
              /\ t \in DOMAIN tasks'
              /\ tasks'[t].state \notin {"created", "cancelled"})
                 => /\ Len(recent_actions') <= Len(recent_actions)
                    /\ IF DecisionFor(t).should_handle
                       THEN /\ tasks'[t].state = "process_request"
                            /\ tasks'[t].process_requests = 1
                       ELSE /\ tasks'[t].state = "returned"
                            /\ tasks'[t].process_requests = 0]_vars
    /\ [][Len(recent_actions') > Len(recent_actions)
             => \E t \in ValidTasks :
                   /\ tasks[t].state = "process_request"
                   /\ tasks'[t].state = "returned"
                   /\ ~tasks'[t].process_raised
                   /\ Len(recent_actions') = Len(recent_actions) + 1
                   /\ recent_actions'[Len(recent_actions')].action
                         = tasks[t].message.intent_type]_vars

C17_Witness ==
    \E t \in ValidTasks :
       /\ tasks[t].message.intent_type = DEVICE_OFF
       /\ tasks[t].process_requests = 1
       /\ tasks[t].actions_added = 1
       /\ tasks[t].callbacks_run
       /\ recent_actions[Len(recent_actions)].action = DEVICE_OFF

(* C18: a payload that does not validate is dropped: its handler returns
   without raising, never calls process_request, appends nothing to the
   context and is never run again; the error is logged and the message is
   counted as failed once. *)
C18_MalformedIsDropped ==
    /\ [](\A t \in MalformedTasks :
             /\ tasks[t].state \in {"created", "returned", "cancelled"}
             /\ tasks[t].process_requests = 0
             /\ tasks[t].actions_added = 0)
    /\ [](metrics.messages_failed
             = Cardinality({t \in MalformedTasks : tasks[t].state = "returned"})
                 + Cardinality({t \in ValidTasks : tasks[t].process_raised}))
    /\ [][\A t \in MalformedTasks :
             (/\ tasks[t].state = "created"
              /\ t \in DOMAIN tasks'
              /\ tasks'[t].state # "created")
                 => \/ tasks'[t].state = "cancelled"
                    \/ /\ tasks'[t].state = "returned"
                       /\ metrics'.messages_failed = metrics.messages_failed + 1
                       /\ metrics'.messages_processed = metrics.messages_processed
                       /\ metrics'.error_count = metrics.error_count + 2
                       /\ recent_actions' = recent_actions]_vars

C18_Witness ==
    \E t \in MalformedTasks :
       /\ tasks[t].state = "returned"
       /\ tasks[t].callbacks_run
       /\ metrics.messages_failed = 1
       /\ metrics.tasks_completed >= 1

(* the tasks listen_to_messages created *)
HandlerTasks == {t \in DOMAIN tasks : tasks[t].coro # "work"}

(* C19: the listener takes the messages in the order of arrival and gives
   each its own task without waiting for the tasks of earlier messages, so
   the task of a later message can finish, and record its action, while the
   task of an earlier one is still running. *)
C19_DispatchWithoutWaiting ==
    /\ \A t \in HandlerTasks : tasks[t].coro = HandlerOf(tasks[t].message)
    /\ \A t, u \in HandlerTasks : t < u => tasks[t].message.seq < tasks[u].message.seq
    /\ \A i \in 1..Len(inbox.queue) :
          inbox.queue[i].seq = inbox.delivered - Len(inbox.queue) + i
    /\ (/\ listener.state = "listening"
        /\ ~listener.must_cancel
        /\ inbox.queue # <<>>
        /\ _task_counter < MaxTasks)
          => ENABLED Dispatch

C19_Witness ==
    \E t, u \in ValidTasks :
       /\ t < u
       /\ tasks[t].state = "process_request"
       /\ tasks[u].state = "returned"
       /\ tasks[u].actions_added = 1
       /\ recent_actions # <<>>
       /\ recent_actions[Len(recent_actions)].action = tasks[u].message.intent_type

----------------------------------------------------------------------------
(* Claims about the bounded history of SkillContext *)

(* C20: whatever max_recent_actions is configured, recent_actions never
   holds more than max_recent_actions entries, and the entries it holds are
   in the order in which they were added. *)
C20_AtMostMaxRecentActions ==
    /\ Len(recent_actions) <= max_recent_actions
    /\ \A i, j \in 1..Len(recent_actions) :
          i < j => recent_actions[i].executed_at <= recent_actions[j].executed_at

----------------------------------------------------------------------------
(* Claims about the lookups of SkillContext *)

(* the positions of actions whose age at time t is less than window *)
Younger(actions, t, window) ==
    {i \in 1..Len(actions) : t - actions[i].executed_at < window}

(* kept holds exactly the entries of actions at the positions in keep, in
   their order *)
IsSelection(kept, actions, keep) ==
    /\ Len(kept) = Cardinality(keep)
    /\ \A k \in 1..Len(kept) :
          \E i \in keep : /\ Cardinality({j \in keep : j <= i}) = k
                          /\ kept[k] = actions[i]

Maximum(S) == CHOOSE x \in S : \A y \in S : y <= x

(* C21: find_recent_action first removes exactly the actions whose age is at
   least recency_window_seconds, keeping the others in order, and then
   returns the last added of the remaining actions that has the name asked
   for and an age below within_seconds (recency_window_seconds when
   within_seconds is omitted); it returns None when there is none. *)
C21_NewestMatchInWindow ==
    lookup.action # "none" =>
       LET window == IF lookup.within_seconds = {} THEN recency_window_seconds
                     ELSE CHOOSE w \in lookup.within_seconds : TRUE
           matches == {k \in Younger(lookup.after, lookup.at, window) :
                          lookup.after[k].action = lookup.action}
       IN  /\ IsSelection(lookup.after, lookup.before,
                          Younger(lookup.before, lookup.at, recency_window_seconds))
           /\ IF matches = {} THEN lookup.result = None
              ELSE lookup.result = lookup.after[Maximum(matches)]

(* two device.on actions were stored; the call removed the expired one and
   returned the other, which a window of 100 s would not have covered *)
C21_Witness ==
    /\ lookup.action = DEVICE_ON
    /\ lookup.within_seconds = {}
    /\ Len(lookup.before) = 2
    /\ lookup.before[1].action = DEVICE_ON
    /\ lookup.at - lookup.before[1].executed_at = recency_window_seconds
    /\ Len(lookup.after) = 1
    /\ lookup.at - lookup.after[1].executed_at = 100
    /\ lookup.result = lookup.after[1]
    /\ recent_actions = lookup.after

----------------------------------------------------------------------------
(* Claims about the device registry *)

(* the positions in the outbox of the notifications call c published *)
NotificationsOf(c) ==
    {k \in 1..Len(outbox) : /\ outbox[k].topic = "device_update_topic"
                            /\ outbox[k].by = c}

(* the call returned what it returns on success *)
Succeeded(call) ==
    /\ call.pc = "returned"
    /\ call.result \in {"device", "True", "id"}

(* C22: a register_device, update_device or delete_device call that
   succeeded with a commit has called publish for exactly one device-update
   notification, and called it after its commit; a call that committed
   nothing has published none, and no call publishes twice. *)
C22_OneNotificationAfterCommit ==
    \A c \in RegistryCallIds :
       LET call == registry_calls[c]
       IN  /\ Cardinality(NotificationsOf(c)) <= 1
           /\ (Succeeded(call) /\ call.committed > 0)
                 => Cardinality(NotificationsOf(c)) = 1
           /\ call.committed = 0 => NotificationsOf(c) = {}
           /\ \A k \in NotificationsOf(c) :
                 /\ outbox[k].version >= call.committed
                 /\ outbox[k].payload = ""

(* a delete_device call succeeded and was notified once, while the
   update_device call that raced with it changed nothing and notified nothing *)
C22_Witness ==
    /\ registry_calls["registry_1"].op = "delete_device"
    /\ Succeeded(registry_calls["registry_1"])
    /\ registry_calls["registry_2"].op = "update_device"
    /\ registry_calls["registry_2"].pc = "returned"
    /\ registry_calls["registry_2"].result = "None"
    /\ registry_calls["registry_2"].committed = 0
    /\ Len(outbox) = 1
    /\ database.devices = {}

----------------------------------------------------------------------------
(* Claims about the bounded cache *)

(* the keys set so far, and the position of the last set of key *)
TouchedKeys == {cache.touched[i].key : i \in 1..Len(cache.touched)}

LastTouch(key) ==
    Maximum({i \in 1..Len(cache.touched) : cache.touched[i].key = key})

(* the keys touched after key was last touched *)
TouchedSince(key) == {k \in TouchedKeys : LastTouch(k) > LastTouch(key)}

(* C23: the cache never holds more than its capacity; it holds exactly the
   most recently touched keys, as many as fit, each once and with the value
   last set, ordered by recency; setting a key that is present moves it to
   the most-recently-used end and leaves the size as it was. *)
C23_HoldsTheMostRecentKeys ==
    /\ Len(cache.entries) <= cache.max_size
    /\ Len(cache.entries) = Min(cache.max_size, Cardinality(TouchedKeys))
    /\ {cache.entries[i].key : i \in 1..Len(cache.entries)}
          = {k \in TouchedKeys : Cardinality(TouchedSince(k)) < cache.max_size}
    /\ \A i, j \in 1..Len(cache.entries) :
          i < j => LastTouch(cache.entries[i].key) < LastTouch(cache.entries[j].key)
    /\ \A i \in 1..Len(cache.entries) :
          cache.entries[i].value = cache.touched[LastTouch(cache.entries[i].key)].value
    /\ cache.last.present
          => /\ Len(cache.entries) = cache.last.size
             /\ cache.entries[Len(cache.entries)]
                   = cache.touched[Len(cache.touched)]

(* a full cache of capacity 2 after capacity + 2 distinct keys, the last
   set being a re-set that moved the older of the two keys held to the end *)
C23_Witness ==
    /\ cache.max_size = MaxCapacity
    /\ Len(cache.touched) = MaxCapacity + 2
    /\ Cardinality(TouchedKeys) = MaxCapacity + 1
    /\ Len(cache.entries) = MaxCapacity
    /\ cache.last.present
    /\ cache.touched[Len(cache.touched)].value = "request_again"
    /\ PositionOf(cache.entries, cache.touched[Len(cache.touched)].key) = MaxCapacity
    /\ cache.touched[Len(cache.touched) - 1].key # cache.touched[Len(cache.touched)].key

----------------------------------------------------------------------------
(* Claims about publish_with_alert *)

(* the positions in the outbox of what call c publishes *)
SentBy(c) == {k \in 1..Len(outbox) : outbox[k].by = c}

(* C24: a publish_with_alert call without broadcast and without a client
   request raises ValueError and publishes nothing; any other call publishes
   to one destination only, the broadcast topic when broadcast is set and
   the output topic of the client request otherwise, with qos 1, not
   retained, and a Response that carries the alert passed, or the skill's
   default alert when none was passed. *)
C24_OneDestination ==
    \A c \in Calls :
       LET request == calls[c].request
       IN  request.via = "publish_with_alert" =>
              IF ~request.broadcast /\ request.client_request = {}
              THEN /\ calls[c].raised = "ValueError"
                   /\ calls[c].publishes = 0
                   /\ SentBy(c) = {}
              ELSE /\ calls[c].raised # "ValueError"
                   /\ calls[c].publishes >= 1
                   /\ Cardinality({outbox[k].topic : k \in SentBy(c)}) = 1
                   /\ \A k \in SentBy(c) :
                         /\ outbox[k].topic =
                               IF request.broadcast THEN broadcast_topic
                               ELSE ClientRequest.output_topic
                         /\ outbox[k].qos = 1
                         /\ outbox[k].retain = FALSE
                         /\ outbox[k].payload.alert =
                               IF request.alert = {} THEN {default_alert}
                               ELSE request.alert

(* a broadcast that was given a client request as well and no alert went to
   the broadcast topic with the default alert and was retried once, while
   the other call raised ValueError *)
C24_Witness ==
    /\ calls["call_1"].request.broadcast
    /\ calls["call_1"].request.client_request = {ClientRequest}
    /\ calls["call_1"].request.alert = {}
    /\ calls["call_1"].result = "True"
    /\ calls["call_1"].publishes = 2
    /\ calls["call_2"].raised = "ValueError"
    /\ Len(outbox) = 1
    /\ outbox[1].topic = broadcast_topic
    /\ outbox[1].payload.alert = {default_alert}

----------------------------------------------------------------------------
(* Claims about Skill.ensure_exists *)

(* C25: whatever calls are made one after the other, the skills table holds
   at most one row per name, every call for a name returns the id of that
   row, and a row's help_text and updated_at change only in a call that
   passes a help text, not None, that differs from the stored one. *)
C25_EnsureExistsIsIdempotent ==
    /\ [](\A i, j \in 1..Len(database.skills) :
             (database.skills[i].name = database.skills[j].name
                \/ database.skills[i].id = database.skills[j].id) => i = j)
    /\ [](\A n \in SkillNames :
             LET ids == registry_calls["ensure_exists"].returned[n]
             IN  /\ Cardinality(ids) <= 1
                 /\ ids # {} => get_by_name(database.skills, n).id \in ids)
    /\ [][\A i \in 1..Len(database.skills) :
             LET old == database.skills[i]
                 new == database.skills'[i]
                 call == registry_calls["ensure_exists"]
             IN  /\ new.id = old.id
                 /\ new.name = old.name
                 /\ new.created_at = old.created_at
                 /\ (new.help_text # old.help_text \/ new.updated_at # old.updated_at)
                       => /\ call.name = old.name
                          /\ call.help_text # {}
                          /\ call.help_text # old.help_text
                          /\ new.help_text = call.help_text]_vars

(* three calls for one name: the first created the row, the second changed
   its help text later on, the third passed None and returned the same id
   leaving the row as it was *)
C25_Witness ==
    LET call == registry_calls["ensure_exists"]
    IN  /\ call.made = 3
        /\ call.pc = "returned"
        /\ call.help_text = {}
        /\ call.returned["switch-skill"] = {1}
        /\ call.returned["media-skill"] = {}
        /\ Len(database.skills) = 1
        /\ database.skills[1].help_text = {"switches and plugs"}
        /\ database.skills[1].updated_at > database.skills[1].created_at
        /\ now > database.skills[1].updated_at

----------------------------------------------------------------------------
(* Claims about skill_preparations *)

(* the statement of skill_preparations that is run in this step fails *)
FailsIn(statement) ==
    /\ supervisor.pc = "preparing"
    /\ registry_calls["skill_preparations"].pc = statement
    /\ ~database.up
    /\ registry_calls'["skill_preparations"] # registry_calls["skill_preparations"]

(* skill_preparations has raised RuntimeError: the handler has ended with it
   and no listener exists *)
RuntimeErrorRaised ==
    /\ registry_calls["skill_preparations"].pc = "raised"
    /\ registry_calls["skill_preparations"].raised = "RuntimeError"
    /\ [source |-> "preparing", kind |-> "RuntimeError"] \in task_group.errors
    /\ supervisor.pc = "terminated"
    /\ listener.state = "none"

(* C26: when ensure_skill_registered fails, or ensure_device_types_registered
   fails for a skill with device types, skill_preparations raises
   RuntimeError into the body of the task group, the handler ends and no
   listener is ever started; when get_skill_devices fails nothing is raised,
   global_devices is the empty list and the preparations go on. *)
C26_FoundationalFailuresPropagate ==
    /\ [][FailsIn("ensure_skill_registered") => RuntimeErrorRaised']_vars
    /\ [][(FailsIn("ensure_device_types_registered")
              /\ registry_calls["skill_preparations"].supported_device_types # {})
             => RuntimeErrorRaised']_vars
    /\ [](registry_calls["skill_preparations"].pc = "raised"
            => /\ RuntimeErrorRaised
               /\ registry_calls["skill_preparations"].failed_in
                     \in {"ensure_skill_registered", "ensure_device_types_registered"})
    /\ [][FailsIn("get_skill_devices")
             => /\ registry_calls'["skill_preparations"].pc = "loaded"
                /\ registry_calls'["skill_preparations"].global_devices = "empty"
                /\ registry_calls'["skill_preparations"].raised = "None"
                /\ UNCHANGED <<supervisor, task_group, listener>>]_vars
    /\ []((registry_calls["skill_preparations"].pc = "loaded"
             /\ supervisor.pc = "preparing")
            => ENABLED PreparationsReturn)

(* ensure_device_types_registered failed after the skill was registered:
   the handler has ended with the RuntimeError and nothing listens *)
C26_Witness ==
    LET call == registry_calls["skill_preparations"]
    IN  /\ call.failed_in = "ensure_device_types_registered"
        /\ call._global_skill_id = 1
        /\ supervisor.pc = "terminated"
        /\ listener.state = "none"
        /\ Len(database.skills) = 1

----------------------------------------------------------------------------
(* Claims about SkillLogger *)

(* C27: every call of get_logger that reaches the cache lock, made by one
   thread or by several at once, returns without error, and a handler and a
   formatter are cached by then. *)
C27_EveryCallReturns ==
    \A t \in LoggerThreads :
        (logger.threads[t].pc \in LockSites)
            ~> (/\ logger.threads[t].pc = "returned"
                /\ logger.handlers # {}
                /\ logger.formatters # {})

----------------------------------------------------------------------------
(* Claims about the time window of a modifier *)

(* C28: whatever the time window of the modifier registered for device.off,
   a device.off request decided less than that window after device.on was
   recorded, with fewer than max_recent_actions actions recorded since, gets
   the lowered threshold, and one decided once the window has elapsed gets
   the base threshold. *)
C28_WindowOfTheModifier ==
    [][(HandleRequest(DEVICE_OFF, 30) /\ lastTrigger.at >= 0
          /\ DEVICE_OFF \in DOMAIN supported_intents)
          => /\ (/\ now - lastTrigger.at
                      < confidence_modifiers[DEVICE_OFF][1].time_window_seconds
                  /\ lastTrigger.since < max_recent_actions)
                   => /\ lastDecision'.lowered = <<DEVICE_ON>>
                      /\ lastDecision'.effective_threshold
                            = Min(supported_intents[DEVICE_OFF], 30)
             /\ (now - lastTrigger.at
                      >= confidence_modifiers[DEVICE_OFF][1].time_window_seconds)
                   => /\ lastDecision'.lowered = <<>>
                      /\ lastDecision'.effective_threshold
                            = supported_intents[DEVICE_OFF]]_vars

----------------------------------------------------------------------------
(* Claims about the registry of active tasks *)

(* the tasks add_task spawned that have not finished *)
UnfinishedTasks == {t \in DOMAIN tasks : tasks[t].state \notin Done}

(* C29: every task spawned by add_task that has not finished has its entry
   in the registry, so get_active_task_count() and the active_count of
   get_task_stats() are at least the number of unfinished tasks, and
   total_created is the number of add_task calls made so far. *)
C29_RunningTasksAreRegistered ==
    /\ UnfinishedTasks \subseteq _active_tasks
    /\ UnfinishedTasks \subseteq get_task_stats.active_tasks
    /\ get_active_task_count >= Cardinality(UnfinishedTasks)
    /\ get_task_stats.active_count >= Cardinality(UnfinishedTasks)
    /\ get_task_stats.total_created = Cardinality(DOMAIN tasks)
    /\ get_task_stats.total_created = metrics.tasks_created

(* two tasks were spawned: one has finished and its entry is removed, the
   other still runs and is the one entry of the registry *)
C29_Witness ==
    /\ get_task_stats.total_created = 2
    /\ get_task_stats.active_count = 1
    /\ Cardinality(UnfinishedTasks) = 1
    /\ \E t \in DOMAIN tasks : tasks[t].callbacks_run /\ t \notin _active_tasks

----------------------------------------------------------------------------
(* Claims about the context under concurrently processed messages *)

(* the handler tasks whose process_request returned and which recorded
   their intent, and the entries of the context, for one intent type *)
RecordedBy(intent_type) ==
    {t \in DOMAIN tasks : /\ tasks[t].actions_added > 0
                          /\ tasks[t].message.intent_type = intent_type}

EntriesOf(intent_type) ==
    {k \in 1..Len(recent_actions) : recent_actions[k].action = intent_type}

(* C30: the decision with its pruning and the recording with its trim are
   single steps of the event loop, and however the handler tasks of the
   messages interleave, the context holds one entry for each acceptance
   whose process_request has returned and no other entry (nothing expires
   and the capacity is not reached while these messages are processed). *)
C30_ContextHoldsTheCompletedAcceptances ==
    /\ \A t \in DOMAIN tasks :
          /\ tasks[t].actions_added <= 1
          /\ tasks[t].actions_added = 1
                => tasks[t].process_requests = 1 /\ tasks[t].state \in Done
    /\ \A i \in IntentType : Cardinality(EntriesOf(i)) = Cardinality(RecordedBy(i))
    /\ \A k \in 1..Len(recent_actions) : recent_actions[k].action \in IntentType

(* the task spawned second has recorded its acceptance while the task
   spawned first still awaits its process_request: the context holds the
   one entry *)
C30_Witness ==
    \E t, u \in DOMAIN tasks :
       /\ u < t
       /\ tasks[t].actions_added = 1
       /\ tasks[u].state = "process_request"
       /\ Len(recent_actions) = 1
       /\ recent_actions[1].action = tasks[t].message.intent_type

----------------------------------------------------------------------------
(* Claims about the lifetime of the context *)

(* C31: the actions recorded in the context outlive a lost connection: when
   the scope of a connection ends while the context holds actions that are
   inside their window, the handler goes on to reconnect, and the skill that
   serves the new connection still has these actions. *)
C31_ContextOutlivesTheConnection ==
    /\ [][(/\ recent_actions # <<>>
            /\ _cleanup_expired_actions(recent_actions, now) = recent_actions
            /\ supervisor.pc = "serving"
            /\ supervisor'.pc # "serving")
             => supervisor'.pc \in {"sleeping", "connecting"}]_vars
    /\ [][(supervisor.pc = "connecting" /\ supervisor'.pc = "subscribing")
             => recent_actions' = _cleanup_expired_actions(recent_actions, now)]_vars

----------------------------------------------------------------------------
(* Claims about the device cache *)

(* the listener takes a notification of the device update topic in this step *)
TakesDeviceUpdate ==
    /\ inbox.queue # <<>>
    /\ inbox'.queue = Tail(inbox.queue)
    /\ Head(inbox.queue).topic = "device_update_topic"

(* the refresh task t runs in this step *)
Refreshes(t) ==
    /\ t \in DOMAIN tasks
    /\ tasks[t].coro = "_handle_device_update"
    /\ tasks[t].state = "created"
    /\ tasks'[t].state # "created"

(* C32: for each message taken from the device update topic, whatever its
   payload, exactly one task is spawned and it runs _handle_device_update;
   that task returns without raising, publishes nothing, and when the
   registry answers, global_devices is afterwards the set of rows the
   registry holds for this skill. *)
C32_OneRefreshPerNotification ==
    /\ [][TakesDeviceUpdate
             => /\ DOMAIN tasks' = DOMAIN tasks \cup {_task_counter}
                /\ _task_counter \notin DOMAIN tasks
                /\ tasks'[_task_counter].coro = "_handle_device_update"
                /\ tasks'[_task_counter].state = "created"
                /\ _task_counter' = _task_counter + 1]_vars
    /\ [](\A t \in DOMAIN tasks :
             tasks[t].coro = "_handle_device_update" => tasks[t].state # "raised")
    /\ [][\A t \in 0..MaxTasks :
             Refreshes(t)
                => /\ tasks'[t].state = "returned"
                   /\ outbox' = outbox
                   /\ calls' = calls
                   /\ database' = database
                   /\ database.up
                        => registry_calls'["device_cache"].global_devices
                             = DevicesOf(database.devices, skill_id)]_vars

(* a notification whose payload cannot be decoded has refreshed the cache:
   it holds the device added to the registry since the start, and not the
   device of the other skill *)
C32_Witness ==
    /\ \E t \in DOMAIN tasks : /\ tasks[t].coro = "_handle_device_update"
                                /\ tasks[t].message.payload = "undecodable"
                                /\ tasks[t].state = "returned"
    /\ registry_calls["device_cache"].refreshes = 1
    /\ registry_calls["device_cache"].last = "list"
    /\ registry_calls["device_cache"].global_devices
          = {GlobalDevice(1, skill_id, "lamp"), GlobalDevice(3, skill_id, "fan")}
    /\ GlobalDevice(2, "other-skill", "heater") \in database.devices

----------------------------------------------------------------------------
(* Claims about the rows of the device registry *)

(* the notifications the call c has published *)
NotifiedBy(c) == {k \in 1..Len(outbox) : outbox[k].by = c}

(* C33: the registry never holds two devices of one skill with the same name
   and pattern, also when register_device calls are in flight together; a
   register_device call that finds the device returns its id, inserts no
   row and publishes no notification. *)
C33_NoDuplicateDevice ==
    /\ \A row, other \in database.devices :
          (row.skill_id = other.skill_id /\ row.name = other.name) => row = other
    /\ \A c \in DeviceCallIds :
          (registry_calls[c].op = "BaseSkill.register_device"
             /\ registry_calls[c].found # 0)
            => /\ registry_calls[c].pc = "returned"
               /\ registry_calls[c].result = "id"
               /\ registry_calls[c].inserted = 0
               /\ registry_calls[c].committed = 0
               /\ NotifiedBy(c) = {}

(* the call has passed its select and the select found no device of the
   skill with the id *)
NotItsDevice(c) ==
    /\ registry_calls[c].op \in {"update_device", "delete_device"}
    /\ registry_calls[c].pc \notin {"idle", "selecting"}
    /\ registry_calls[c].found = 0

(* C34: update_device and delete_device called with an id that is not
   stored, or that is the id of a device of another skill, commit nothing,
   publish nothing, leave every row of the registry as it is and return
   None and False. *)
C34_OnlyItsOwnDevices ==
    /\ [](\A c \in DeviceCallIds :
             NotItsDevice(c)
               => /\ registry_calls[c].pc = "returned"
                  /\ registry_calls[c].committed = 0
                  /\ NotifiedBy(c) = {}
                  /\ registry_calls[c].result
                        = IF registry_calls[c].op = "delete_device" THEN "False" ELSE "None")
    /\ [](\A c \in DeviceCallIds :
             (registry_calls[c].op \in {"update_device", "delete_device"}
                /\ registry_calls[c].device_id \in {2, 9})
               => registry_calls[c].found = 0 /\ registry_calls[c].committed = 0)
    /\ [](GlobalDevice(2, "other-skill", "heater") \in database.devices)
    /\ [][\A c \in DeviceCallIds :
             (registry_calls'[c] # registry_calls[c]
                /\ registry_calls[c].op \in {"update_device", "delete_device"}
                /\ registry_calls[c].device_id \in {2, 9})
               => database' = database /\ outbox' = outbox]_vars

(* update_device was called with the id of the other skill's device and
   delete_device with an id that is not stored: both have returned, the
   registry is as it was and nothing was published *)
C34_Witness ==
    /\ registry_calls["device_call_1"].op = "update_device"
    /\ registry_calls["device_call_1"].device_id = 2
    /\ registry_calls["device_call_1"].pc = "returned"
    /\ registry_calls["device_call_1"].result = "None"
    /\ registry_calls["device_call_2"].op = "delete_device"
    /\ registry_calls["device_call_2"].device_id = 9
    /\ registry_calls["device_call_2"].pc = "returned"
    /\ registry_calls["device_call_2"].result = "False"
    /\ database = [EmptyDatabase EXCEPT !.devices = StoredDevices, !.version = 2]
    /\ outbox = <<>>

----------------------------------------------------------------------------
(* Claims about the moment a lowered threshold becomes visible *)

(* the handler of the valid request of task t takes its decision in this step *)
Decides(t) ==
    /\ t \in DOMAIN tasks'
    /\ tasks[t].state = "created"
    /\ tasks'[t].state \notin {"created", "cancelled"}

(* a device.on request was accepted and its process_request has returned *)
TriggerCompleted ==
    \E u \in ValidTasks : /\ tasks[u].message.intent_type = DEVICE_ON
                          /\ tasks[u].actions_added = 1

(* C35: a device.off request with confidence 0.3 is decided against the
   base threshold 0.8 and rejected as long as no device.on request has
   completed, also while the process_request of one is running; once the
   process_request of a device.on request has returned it is decided against
   the reduced threshold 0.3 and accepted. *)
C35_RelaxationAfterCompletion ==
    [][\A t \in ValidTasks :
          (Decides(t) /\ tasks[t].message.intent_type = DEVICE_OFF)
             => IF TriggerCompleted
                THEN /\ DecisionFor(t).effective_threshold = 30
                     /\ tasks'[t].state = "process_request"
                ELSE /\ DecisionFor(t).effective_threshold
                           = supported_intents[DEVICE_OFF]
                     /\ tasks'[t].state = "returned"
                     /\ tasks'[t].process_requests = 0]_vars

(* the device.off request was rejected while the process_request of the
   device.on request is still running *)
C35_Witness ==
    \E t, u \in ValidTasks :
       /\ tasks[u].message.intent_type = DEVICE_ON
       /\ tasks[u].state = "process_request"
       /\ tasks[t].message.intent_type = DEVICE_OFF
       /\ tasks[t].state = "returned"
       /\ tasks[t].process_requests = 0
       /\ recent_actions = <<>>

----------------------------------------------------------------------------
(* Claims about ensure_exists called concurrently *)

(* C36: ensure_exists stays idempotent when skills call it at the same
   time: a call fails only when the database cannot be reached, the calls
   that returned for one name returned the same id, and at most one row is
   stored for a name. *)
C36_EnsureExistsIsIdempotentConcurrently ==
    /\ \A c \in SkillNames :
          registry_calls[c].pc = "raised" => registry_calls[c].raised = "OperationalError"
    /\ \A c, d \in SkillNames :
          (/\ registry_calls[c].pc = "returned"
           /\ registry_calls[d].pc = "returned"
           /\ registry_calls[c].name = registry_calls[d].name)
             => registry_calls[c].result = registry_calls[d].result
    /\ \A name \in DeviceTypeNames :
          Cardinality({row \in database.device_types : row.name = name}) <= 1

----------------------------------------------------------------------------
(* Claims about a failed refresh of the device cache *)

(* C37: when the registry cannot be queried while a device update
   notification is handled, global_devices is the empty list afterwards,
   whatever was cached before, and the task returns. *)
C37_FailedRefreshEmptiesTheCache ==
    [][\A t \in 0..MaxTasks :
          (Refreshes(t) /\ ~database.up)
             => /\ registry_calls'["device_cache"].global_devices = {}
                /\ registry_calls'["device_cache"].last = "empty"
                /\ tasks'[t].state = "returned"]_vars

(* the first refresh failed: the cache that held the device of the skill
   is empty although the registry still stores the device *)
C37_Witness ==
    /\ registry_calls["device_cache"].refreshes = 1
    /\ registry_calls["device_cache"].last = "empty"
    /\ registry_calls["device_cache"].global_devices = {}
    /\ GlobalDevice(1, skill_id, "lamp") \in database.devices
    /\ \E t \in DOMAIN tasks : /\ tasks[t].coro = "_handle_device_update"
                                /\ tasks[t].state = "returned"

----------------------------------------------------------------------------
(* Claims about the timers of the metrics collector *)

(* the calls that started their timer and have not ended *)
InFlight == {c \in Calls : calls[c].pc \in {"publishing", "sleeping", "processing"}}

(* C38: when a call of _send_response_with_retry or of
   handle_client_request_message ends, by returning or by raising, the
   timer it started is not among the active timers; and the number of
   active timers is the number of calls in flight. *)
C38_EveryTimerIsReleased ==
    /\ [][\A c \in Calls :
             (calls[c].pc \notin {"returned", "raised"}
                /\ calls'[c].pc \in {"returned", "raised"})
                => calls'[c].timer_id \notin DOMAIN metrics'._active_timers]_vars
    /\ [](Cardinality(DOMAIN metrics._active_timers) = Cardinality(InFlight))

(* C39: two calls of the same method in flight at the same time hold
   different timer ids, and the end_timer of a call returns the time since
   the start_timer of that call. *)
C39_TimerIdsAreDistinct ==
    /\ \A c, d \in InFlight :
          (c # d /\ calls[c].op = calls[d].op) => calls[c].timer_id # calls[d].timer_id
    /\ \A c \in Calls :
          calls[c].end_timer_calls > 0
             => calls[c].duration = {calls[c].ended_at - calls[c].started}

====
